---- MODULE Spec2Model ----
(***************************************************************************)
(* Command registry of discord/slash.py: the CommandStore cache, its       *)
(* reconciliation pass sync() against the remote application-command API,  *)
(* and the routing of interactions through _raw_cache.                     *)
(*                                                                         *)
(* Every remote request of sync() is an await, hence one step of the       *)
(* model; the code between two awaits runs inside the step that ends the   *)
(* earlier await.                                                          *)
(***************************************************************************)
EXTENDS Integers, Sequences, FiniteSets, TLC

\* ------------------------------------------------------------------ bounds
MaxCmds == 2          \* command objects the application constructs
MaxSyncs == 2         \* calls of sync()
MaxLocalEdits == 1    \* changes the application makes after construction
MaxFailures == 1      \* remote requests that fail

\* ---------------------------------------------------------------- universe
Guilds == {"g1", "g2"}
AddNames == {"a"}
AddTypes == {"chat_input", "user"}
Descriptions == {"d1", "d2"}
Permissions == {"p0", "p1"}

\* SlashOption objects (slash.py 117-150)
Opt1 == [type |-> "string", name |-> "x", description |-> "od1", required |-> TRUE,
         channel_types |-> {}]
Opt2 == [type |-> "string", name |-> "x", description |-> "od2", required |-> TRUE,
         channel_types |-> {}]
AddOptionLists == {<<>>, <<Opt1>>}
OptionLists == {<<>>, <<Opt1>>, <<Opt2>>}

\* ----------------------------------------------- insertion-ordered dicts
\* A Python dict is a sequence of [k, v] entries in insertion order.
Has(d, key) == \E i \in DOMAIN d : d[i].k = key

Get(d, key) == d[CHOOSE i \in DOMAIN d : d[i].k = key].v

Put(d, key, val) ==
    IF Has(d, key)
    THEN [i \in DOMAIN d |-> IF d[i].k = key THEN [k |-> key, v |-> val] ELSE d[i]]
    ELSE Append(d, [k |-> key, v |-> val])

KeySeq(d) == [i \in DOMAIN d |-> d[i].k]

\* ------------------------------------------------------------ wire format
\* ApplicationCommandType(...).value and str(ApplicationCommandType....)
TypeValue(t) == CASE t = "chat_input" -> 1 [] t = "user" -> 2 [] t = "message" -> 3

TypeKey(v) == CASE v = 1 -> "chat_input" [] v = 2 -> "user" [] v = 3 -> "message"

\* The absent result (None) of a lookup in a list of remote commands.
NoneCmd == [id |-> 0, type |-> 0, name |-> "", description |-> "", options |-> <<>>,
            hasOptions |-> FALSE, permissions |-> "p0"]

\* SlashOption.to_dict: the channel types are written under the key
\* 'channel_typese', so the payload carries no 'channel_types'.
OptionToDict(o) ==
    [type |-> o.type, name |-> o.name, description |-> o.description,
     required |-> o.required, channel_types |-> {}, channel_typese |-> o.channel_types]

\* an option a subcommand or a group of subcommands becomes: the mapping of
\* SubSlashCommand.to_dict() (its type, chat_input, has the value of
\* OptionType.subcommand), or of SlashOption(subcommand_group, ...).to_dict()
SubEntry(type, name, options) ==
    [type |-> type, name |-> name, description |-> "zwsp", required |-> FALSE,
     channel_types |-> {}, channel_typese |-> {}, options |-> options]

\* the options SlashCommand.to_dict builds from __subcommands__
\* a to_dict that leaves the members of a group out
SubOptionsGroupsEmpty(tree) ==
    [i \in DOMAIN tree |->
        IF tree[i].v.kind = "sub"
        THEN SubEntry("subcommand", tree[i].v.cmd.name, <<>>)
        ELSE SubEntry("subcommand_group", tree[i].k, <<>>)]

SubOptions(tree) ==
    [i \in DOMAIN tree |->
        IF tree[i].v.kind = "sub"
        THEN SubEntry("subcommand", tree[i].v.cmd.name, <<>>)
        ELSE SubEntry("subcommand_group", tree[i].k,
                      [j \in DOMAIN tree[i].v.subs |->
                          SubEntry("subcommand", tree[i].v.subs[j].v.cmd.name, <<>>)])]

\* SlashCommand.to_dict / ContextCommand.to_dict: 'options' is present only
\* when the command has options, and holds the subcommands when it has some;
\* a context command sends no description.
ToDict(b) ==
    IF b.type = "chat_input"
    THEN [type |-> TypeValue(b.type), name |-> b.name, description |-> b.description,
          options |-> IF b.subs # <<>> THEN SubOptions(b.subs)
                      ELSE [i \in DOMAIN b.options |-> OptionToDict(b.options[i])],
          hasOptions |-> b.subs # <<>> \/ b.options # <<>>]
    ELSE [type |-> TypeValue(b.type), name |-> b.name, description |-> "",
          options |-> <<>>, hasOptions |-> FALSE]

\* SlashOption.__eq__ against a payload dict
SlashOptionEq(o, d) ==
    /\ d.type = o.type
    /\ d.name = o.name
    /\ d.description = o.description
    /\ d.required = o.required
    /\ Cardinality(d.channel_types) = Cardinality(o.channel_types)
    /\ d.channel_types = o.channel_types

\* SlashCommand.__eq__ against a payload dict: type, name and options; the
\* description is not read.
SlashCommandEq(b, api) ==
    /\ api.type = TypeValue(b.type)
    /\ api.name = b.name
    /\ Len(b.options) = Len(api.options)
    /\ \A i \in DOMAIN b.options : SlashOptionEq(b.options[i], api.options[i])

\* object['options'] in SlashCommand.__eq__ raises KeyError when the payload
\* has no 'options' key and the type and the name already matched.
EqRaises(b, api) ==
    /\ b.type = "chat_input"
    /\ api.type = TypeValue(b.type)
    /\ api.name = b.name
    /\ ~api.hasOptions

\* api_command != base: the negation of SlashCommand.__eq__ for a slash
\* command; a context command defines no comparison with a payload, so a
\* payload always differs from it.
CommandNe(api, b) == IF b.type = "chat_input" THEN ~SlashCommandEq(b, api) ELSE TRUE

\* api_permissions != base.permissions: SlashPermission defines no __eq__, so
\* the fetched payload never equals the SlashPermission object.
PermissionsNe(apiPerms, perms) == TRUE

\* x["type"] == typ inside get_global_command when sync() passes base.type,
\* the enum member, instead of its value: the member compares as its value
EnumOperand(t) == TypeValue(t)

\* first x of the list with x["name"] == name and x["type"] == typ, else None
FindCommand(list, name, typ) ==
    IF \E i \in DOMAIN list : list[i].name = name /\ list[i].type = typ
    THEN list[CHOOSE i \in DOMAIN list :
                /\ list[i].name = name /\ list[i].type = typ
                /\ \A j \in 1..(i-1) : ~(list[j].name = name /\ list[j].type = typ)]
    ELSE NoneCmd

\* APITools.get_global_command
get_global_command(rem, name, typ) == FindCommand(rem["globals"], name, typ)

\* APITools.get_guild_command: an enum member is replaced by its value
get_guild_command(rem, name, typ, guild) == FindCommand(rem[guild], name, TypeValue(typ))

\* ----------------------------------------------------- the remote platform
\* slash_http as the spec describes it: each scope holds a list of command
\* payloads with a platform-issued id; a create under a name and type the
\* scope already holds overwrites that command and keeps its id.
Scopes == {"globals"} \cup Guilds

Stored(payload, id, perms) ==
    [id |-> id, type |-> payload.type, name |-> payload.name,
     description |-> payload.description, options |-> payload.options,
     hasOptions |-> payload.hasOptions, permissions |-> perms]

SameSlot(x, payload) == x.name = payload.name /\ x.type = payload.type

RemoteCreate(list, payload, perms, newId) ==
    IF \E i \in DOMAIN list : SameSlot(list[i], payload)
    THEN [i \in DOMAIN list |-> IF SameSlot(list[i], payload)
                                 THEN Stored(payload, list[i].id, perms) ELSE list[i]]
    ELSE Append(list, Stored(payload, newId, perms))

RemoteEdit(list, id, payload, perms) ==
    [i \in DOMAIN list |-> IF list[i].id = id THEN Stored(payload, id, perms) ELSE list[i]]

RemoteSetPermissions(list, id, perms) ==
    [i \in DOMAIN list |-> IF list[i].id = id THEN [list[i] EXCEPT !.permissions = perms]
                           ELSE list[i]]

RemoteDelete(list, id) == SelectSeq(list, LAMBDA x : x.id # id)

RemoteEmpty == [s \in Scopes |-> <<>>]

\* what earlier runs of the application may have left on the platform
Remote1 ==
    [s \in Scopes |->
       CASE s = "globals" ->
              << Stored(ToDict([type |-> "chat_input", name |-> "a", description |-> "d1",
                                options |-> <<Opt1>>, subs |-> <<>>]), 1, "p0"),
                 Stored(ToDict([type |-> "chat_input", name |-> "b", description |-> "d1",
                                options |-> <<>>, subs |-> <<>>]), 2, "p0") >>
         [] s = "g1" ->
              << Stored(ToDict([type |-> "chat_input", name |-> "a", description |-> "d1",
                                options |-> <<>>, subs |-> <<>>]), 3, "p0"),
                 Stored(ToDict([type |-> "user", name |-> "a"]), 4, "p0"),
                 Stored(ToDict([type |-> "user", name |-> "b"]), 5, "p0") >>
         [] OTHER ->
              << Stored(ToDict([type |-> "user", name |-> "b"]), 6, "p0") >> ]

\* the worlds the store starts in: a fresh application whose bot is in both
\* guilds, and an application with commands left by earlier runs whose bot
\* is in g1 only
Worlds == { [remote |-> RemoteEmpty, guilds |-> <<"g1", "g2">>],
            [remote |-> Remote1, guilds |-> <<"g1">>] }

RemoteIds(rem) == UNION {{rem[s][i].id : i \in DOMAIN rem[s]} : s \in Scopes}

\* ------------------------------------------------------------------- state
VARIABLES
    objs,         \* the command objects: type, name, description, options, guild_ids, id, permissions, subs
    cache,        \* CommandStore._cache: scope -> type key -> name -> object
    raw_cache,    \* CommandStore._raw_cache: set of [id, ref]
    on_sync,      \* CommandStore._on_sync: "default" or "user"
    stateGuilds,  \* ConnectionState.guilds, in order
    remote,       \* the platform's commands per scope
    nextId,       \* next id the platform issues
    pc,           \* position of sync(): idle, an await, done or failed
    sy,           \* local variables of the running sync()
    err,          \* the exception that ended the last sync(), "" if none
    log,          \* modifying requests that succeeded in the current sync()
    calls,        \* all requests issued in the current sync()
    notif,        \* notifications of the current sync(), in order
    startRemote,  \* the platform's commands when the current sync() started
    startObjs,    \* the command objects when the current sync() started
    syncs, edits, fails

\* command routing: CommandStore.get_interaction_command and the subcommands
VARIABLES
    subcommands,  \* SlashCommand.__subcommands__ of the command objs[1]
    nextSub,      \* SubSlashCommand objects constructed so far
    routed        \* the last call of the routing part and what it gave

syncVars == <<objs, cache, raw_cache, on_sync, stateGuilds, remote, nextId, pc, sy, err,
              log, calls, notif, startRemote, startObjs, syncs, edits, fails>>

routeVars == <<subcommands, nextSub, routed>>

\* command dispatch: CommandStore.dispatch and the tasks it creates
VARIABLES
    events,       \* what dispatch calls emitted and scheduled, in order
    tasks,        \* the tasks created for command callbacks: their status
    caller        \* the caller of dispatch: free, or held by a task

dispatchVars == <<events, tasks, caller>>

\* responding to one interaction: InteractionResponse and Interaction
VARIABLES
    itype,        \* InteractionResponse._parent.type
    responded,    \* InteractionResponse._responded
    inter,        \* Interaction.deferred and Interaction.responded
    sent,         \* requests issued for the interaction, by kind
    call          \* the call in flight, or the last one and how it ended

respVars == <<itype, responded, inter, sent, call>>

\* message components: one ComponentStore
VARIABLES
    given,        \* the list handed to ComponentStore(...)
    store,        \* the ComponentStore: whether it was constructed, and its rows
    dicted       \* what to_dict() of the store gave, or raised

compVars == <<given, store, dicted>>

\* one component: built or parsed, serialised, parsed again, looked up
VARIABLES
    asked,        \* the call made: a constructor, from_dict or the factory, and its arguments
    made,         \* the object the call gave
    wired,        \* what to_dict() of the object gave
    got           \* what parsing the mapping again, or a lookup, gave

partVars == <<asked, made, wired, got>>

\* subcommands handed to the store, and its last add_command or remove
VARIABLES
    subobjs,      \* the SubSlashCommand objects: name, group_name, base_name, guild_ids
    last          \* the last add_command of a subcommand or remove: what, on which object, the exception

storeVars == <<subobjs, last>>

\* Interaction.original_message of one interaction
VARIABLES
    original_message,  \* Interaction._original_message: 0 for None, else the message object
    ocalls,            \* the calls of original_message made so far: where each stands
    overlapped         \* whether a call began while another was awaiting its fetch

origVars == <<original_message, ocalls, overlapped>>

\* CommandStore.nuke
VARIABLES
    nk                 \* the call of nuke: its arguments, where it stands, what was deleted

nukeVars == <<nk>>

\* response operations of one InteractionResponse running as tasks
VARIABLES
    flights            \* the calls begun so far: the operation, where it stands, the exception

overVars == <<flights>>

\* the UI extension of a client and the command store of its connection
VARIABLES
    ui,                \* is_ready() of the client, whether the UI still has _temp_commands, the exception
    stores,            \* the commands in the dict each CommandStore was constructed with
    connCache          \* what _cache of the connection's store refers to: its own dict or the temporary store

uiVars == <<ui, stores, connCache>>

lateVars == <<origVars, nukeVars, overVars, uiVars>>

UIIdle ==
    /\ ui = [ready |-> FALSE, temp |-> TRUE, err |-> ""]
    /\ stores = [temp |-> {}, conn |-> {}]
    /\ connCache = "conn"

OverIdle == flights = <<>>

OrigIdle == original_message = 0 /\ ocalls = <<>> /\ overlapped = FALSE

NoNuke == [pc |-> "", err |-> "", globals |-> FALSE, guilds |-> "", ids |-> <<>>,
           deleted |-> {}, unawaited |-> {}]

NukeIdle == nk = NoNuke

LateIdle == OrigIdle /\ NukeIdle /\ OverIdle /\ UIIdle

\* the variables sync() and the registration of commands leave alone
otherVars == <<routeVars, dispatchVars, respVars, compVars, partVars, storeVars, lateVars>>

\* the variables the routing part leaves alone
notRouteVars == <<syncVars, dispatchVars, respVars, compVars, partVars, storeVars, lateVars>>

\* the variables the dispatch part leaves alone
notDispatchVars == <<syncVars, routeVars, respVars, compVars, partVars, storeVars, lateVars>>

\* the variables the response part leaves alone
notRespVars == <<syncVars, routeVars, dispatchVars, compVars, partVars, storeVars, lateVars>>

\* the variables the ComponentStore part leaves alone
notCompVars == <<syncVars, routeVars, dispatchVars, respVars, partVars, storeVars, lateVars>>

\* the variables the part about one component leaves alone
notPartVars == <<syncVars, routeVars, dispatchVars, respVars, compVars, storeVars, lateVars>>

\* the variables add_command of a subcommand and remove leave alone
notStoreVars == <<routeVars, dispatchVars, respVars, compVars, partVars, lateVars>>

NoStoreCall == [op |-> "", kind |-> "", ref |-> 0, err |-> "", n |-> 0]

StoreIdle == subobjs = <<>> /\ last = NoStoreCall

\* nothing built, serialised or looked up yet
Nothing == [cls |-> "nothing"]

PartIdle == asked = Nothing /\ made = Nothing /\ wired = Nothing /\ got = Nothing

NoStore == [built |-> FALSE, rows |-> <<>>]

NoDict == [state |-> "none", value |-> <<>>]

CompIdle ==
    /\ given = <<>>
    /\ store = NoStore
    /\ dicted = NoDict

\* the keyword arguments of a call that matter here: which were supplied
NoArgs == [content |-> FALSE, embed |-> FALSE, embeds |-> FALSE,
           ninja_mode |-> FALSE, force |-> FALSE]

\* no call was made on the interaction yet
NoResponseCall ==
    [obj |-> "", op |-> "", args |-> NoArgs, pc |-> "", err |-> "", requests |-> 0,
     n |-> 0, before |-> [responded |-> FALSE, deferred |-> FALSE, iresponded |-> FALSE]]

NothingSent == [initial |-> 0, respond_to |-> 0, edit_original |-> 0, followup |-> 0,
                fetch |-> 0, failed |-> 0]

RespIdle ==
    /\ itype = "application_command"
    /\ responded = FALSE
    /\ inter = [deferred |-> FALSE, responded |-> FALSE]
    /\ sent = NothingSent
    /\ call = NoResponseCall

Free == [at |-> "free", task |-> 0]

DispatchIdle == events = <<>> /\ tasks = <<>> /\ caller = Free

vars == <<syncVars, otherVars>>

\* an interaction payload's data: the command id and the options, if any
NoData == [id |-> 0, hasOptions |-> FALSE, options |-> <<>>]

\* what a call gave: None, a command of the store, a subcommand object, a
\* dict of subcommands, or the exception it raised
Outcome(kind, ref, obj) == [kind |-> kind, ref |-> ref, obj |-> obj]

\* nothing was routed: a command without subcommands, no call made
NoCall == [op |-> "", data |-> NoData, out |-> Outcome("", 0, 0)]

RouteIdle == subcommands = <<>> /\ nextSub = 0 /\ routed = NoCall

OthersIdle == RouteIdle /\ DispatchIdle /\ RespIdle /\ CompIdle /\ PartIdle /\ StoreIdle /\ LateIdle

\* CommandStore.clear
ClearedCache ==
    << [k |-> "globals",
        v |-> << [k |-> "chat_input", v |-> <<>>],
                 [k |-> "user", v |-> <<>>],
                 [k |-> "message", v |-> <<>>] >>] >>

NoSync ==
    [delete_unused |-> FALSE, s |-> "globals", c |-> 0, n |-> 0, gi |-> 0,
     guildKeys |-> <<>>, api_command |-> NoneCmd, api_permissions |-> "p0",
     op |-> "", delList |-> <<>>, dgi |-> 0,
     base |-> 0, namesGrew |-> FALSE, typesGrew |-> FALSE]

MaxOf(S) == CHOOSE x \in S : \A y \in S : y <= x

Init ==
    /\ objs = <<>>
    /\ cache = ClearedCache
    /\ raw_cache = {}
    /\ on_sync = "default_on_sync"
    /\ \E w \in Worlds : remote = w.remote /\ stateGuilds = w.guilds
    /\ nextId = 1 + MaxOf(RemoteIds(remote) \cup {0})
    /\ pc = "idle"
    /\ sy = NoSync
    /\ err = ""
    /\ log = <<>>
    /\ calls = 0
    /\ notif = <<>>
    /\ startRemote = remote
    /\ startObjs = <<>>
    /\ syncs = 0
    /\ edits = 0
    /\ fails = 0
    /\ OthersIdle

\* no sync() is running: none was called yet or the store changed since the
\* last one ("idle"), or the last one returned ("done") or raised ("failed")
Idle == pc \in {"idle", "done", "failed"}

\* ------------------------------------------------------------ registration
\* ApplicationCommand.is_global
is_global(b) == ~(Len(b.guild_ids) > 0)

\* the guild branch of CommandStore._add, guild by guild
RECURSIVE AddGuilds(_, _, _, _, _, _)
AddGuilds(ch, gids, i, typeKey, name, ref) ==
    IF i > Len(gids) THEN ch
    ELSE LET g == gids[i]
             c1 == IF Has(ch, g) THEN ch ELSE Put(ch, g, <<>>)
             c2 == IF Has(Get(c1, g), typeKey) THEN c1
                   ELSE Put(c1, g, Put(Get(c1, g), typeKey, <<>>))
             c3 == Put(c2, g, Put(Get(c2, g), typeKey, Put(Get(Get(c2, g), typeKey), name, ref)))
         IN AddGuilds(c3, gids, i + 1, typeKey, name, ref)

\* an _add that stops after the first guild id
CacheAddFirstGuild(ch, b, ref) ==
    IF is_global(b)
    THEN Put(ch, "globals",
             Put(Get(ch, "globals"), b.type, Put(Get(Get(ch, "globals"), b.type), b.name, ref)))
    ELSE AddGuilds(ch, <<b.guild_ids[1]>>, 1, b.type, b.name, ref)

\* CommandStore._add for a command that is no subcommand
CacheAdd(ch, b, ref) ==
    IF is_global(b)
    THEN Put(ch, "globals",
             Put(Get(ch, "globals"), b.type, Put(Get(Get(ch, "globals"), b.type), b.name, ref)))
    ELSE AddGuilds(ch, b.guild_ids, 1, b.type, b.name, ref)

GuildIdLists == {<<>>, <<"g1">>, <<"g1", "g2">>}


\* ------------------------------------------------------------------ sync()
\* The part of the state sync() writes, as one record.
Cur ==
    [objs |-> objs, raw_cache |-> raw_cache, remote |-> remote, nextId |-> nextId,
     pc |-> pc, sy |-> sy, err |-> err, log |-> log, notif |-> notif]

Apply(r) ==
    /\ objs' = r.objs
    /\ raw_cache' = r.raw_cache
    /\ remote' = r.remote
    /\ nextId' = r.nextId
    /\ pc' = r.pc
    /\ sy' = r.sy
    /\ err' = r.err
    /\ log' = r.log
    /\ notif' = r.notif

\* a sync() that reports a failed request to its listeners
RaiseAndNotify(st, e) ==
    [st EXCEPT !.pc = "failed", !.err = e, !.notif = << "commands_synced", on_sync >>]

\* an exception leaves sync(): nothing catches it
Raise(st, e) == [st EXCEPT !.pc = "failed", !.err = e]

\* a sync() that awaits the callback before it dispatches the event
NotificationsCallbackFirst(cb) == << cb, "commands_synced" >>

\* self._state.dispatch('commands_synced'), then await self._on_sync()
Notifications(cb) == << "commands_synced", cb >>

Finish(st) == [st EXCEPT !.pc = "done", !.notif = Notifications(on_sync)]

\* self._raw_cache[base.id] = base
RawPut(rc, id, ref) == {e \in rc : e.id # id} \cup {[id |-> id, ref |-> ref]}

\* a sync() that stores the id on the command but not the command in _raw_cache
AssignWithoutIndex(st, ref, id) == [st EXCEPT !.objs[ref].id = id]

\* a sync() that stores the command in _raw_cache but not the id on it
AssignIndexOnly(st, ref, id) == [st EXCEPT !.raw_cache = RawPut(@, id, ref)]

\* base.id = ...; self._raw_cache[base.id] = base
Assign(st, ref, id) ==
    [st EXCEPT !.objs[ref].id = id, !.raw_cache = RawPut(@, id, ref)]

\* the next entry of a scope in iteration order (type dict by type dict)
RECURSIVE NextEntry(_, _, _)
NextEntry(sd, c, n) ==
    IF c > Len(sd) THEN <<0, 0>>
    ELSE IF n <= Len(sd[c].v) THEN <<c, n>>
    ELSE NextEntry(sd, c + 1, 1)

\* a delete pass that deletes every global command it fetched
DeleteEveryGlobal(ch, cmd) == TRUE

\* whether sync(delete_unused) deletes a remote global command
DeleteGlobalWanted(ch, cmd) ==
    IF ~Has(Get(ch, "globals"), TypeKey(cmd.type)) THEN TRUE
    ELSE ~Has(Get(Get(ch, "globals"), TypeKey(cmd.type)), cmd.name)

\* a delete pass that keeps every command of a type the guild has locally
DeleteGuildByTypeOnly(ch, guild, cmd) ==
    IF ~Has(ch, guild) THEN TRUE
    ELSE ~Has(Get(ch, guild), TypeKey(cmd.type))

\* whether sync(delete_unused) deletes a remote command of a guild
DeleteGuildWanted(ch, guild, cmd) ==
    IF ~Has(ch, guild) THEN TRUE
    ELSE IF ~Has(Get(ch, guild), TypeKey(cmd.type)) THEN TRUE
    ELSE ~Has(Get(Get(ch, guild), TypeKey(cmd.type)), cmd.name)

RECURSIVE SkipKeptGlobal(_, _)
SkipKeptGlobal(ch, list) ==
    IF list = <<>> THEN list
    ELSE IF DeleteGlobalWanted(ch, Head(list)) THEN list
    ELSE SkipKeptGlobal(ch, Tail(list))

RECURSIVE SkipKeptGuild(_, _, _)
SkipKeptGuild(ch, guild, list) ==
    IF list = <<>> THEN list
    ELSE IF DeleteGuildWanted(ch, guild, Head(list)) THEN list
    ELSE SkipKeptGuild(ch, guild, Tail(list))

\* for guild in [str(x.id) for x in self._state.guilds]
DelGuildNext(st, dgi) ==
    IF dgi > Len(stateGuilds) THEN Finish(st)
    ELSE [st EXCEPT !.pc = "del_gg_fetch", !.sy.dgi = dgi]

\* the loop over the fetched global commands, up to its next delete request
DelGlobalCont(st, list) ==
    LET l == SkipKeptGlobal(cache, list)
    IN IF l = <<>> THEN DelGuildNext([st EXCEPT !.sy.delList = <<>>], 1)
       ELSE [st EXCEPT !.pc = "del_g", !.sy.delList = l]

\* the loop over the fetched commands of a guild, up to its next delete request
DelGuildCont(st, list) ==
    LET l == SkipKeptGuild(cache, stateGuilds[st.sy.dgi], list)
    IN IF l = <<>> THEN DelGuildNext([st EXCEPT !.sy.delList = <<>>], st.sy.dgi + 1)
       ELSE [st EXCEPT !.pc = "del_gg", !.sy.delList = l]

\* if delete_unused is True: ... ; then the notifications
AfterLoops(st) ==
    IF st.sy.delete_unused THEN [st EXCEPT !.pc = "del_g_fetch"] ELSE Finish(st)

\* the guild loops from guild number gi, entry (c, n), up to the next request
RECURSIVE GuildFrom(_, _, _, _)
GuildFrom(st, gi, c, n) ==
    IF gi > Len(st.sy.guildKeys) THEN AfterLoops(st)
    ELSE LET g == st.sy.guildKeys[gi]
             e == NextEntry(Get(cache, g), c, n)
         IN IF e[1] = 0 THEN GuildFrom(st, gi + 1, 1, 1)
            ELSE [st EXCEPT !.pc = "gg_fetch", !.sy.s = g, !.sy.gi = gi,
                            !.sy.c = e[1], !.sy.n = e[2],
                            !.sy.base = Get(cache, g)[e[1]].v[e[2]].v]

\* self["!globals"]: the keys of the cache but "globals", copied
GuildKeys(ch) == SelectSeq(KeySeq(ch), LAMBDA key : key # "globals")

\* the global loop from entry (c, n), up to the next request
GlobalFrom(st, c, n) ==
    LET e == NextEntry(Get(cache, "globals"), c, n)
    IN IF e[1] = 0
       THEN GuildFrom([st EXCEPT !.sy.guildKeys = GuildKeys(cache)], 1, 1, 1)
       ELSE [st EXCEPT !.pc = "g_fetch", !.sy.s = "globals", !.sy.c = e[1], !.sy.n = e[2],
                       !.sy.base = Get(cache, "globals")[e[1]].v[e[2]].v]

\* base = self[scope][ct][base_name] of the entry sync() is at, bound when
\* the loop body started
RefAt(ch, y) == y.base

\* dict iterators that do not look at the size of their dict
IteratorNeverRaises(st) == FALSE

\* the step of the dict iterators after a loop body: an iterator whose dict
\* has another size than when the loop started raises RuntimeError
\* (dictionary changed size during iteration); the iterator of the names
\* steps first, the one of the types when the names are exhausted
IteratorRaises(st) ==
    \/ st.sy.namesGrew
    \/ /\ st.sy.typesGrew
       /\ NextEntry(Get(cache, st.sy.s), st.sy.c, st.sy.n + 1)[1] # st.sy.c

\* for base_name in self["globals"][ct]: the next entry
GlobalAdvance(st) ==
    IF IteratorRaises(st) THEN Raise(st, "RuntimeError")
    ELSE GlobalFrom(st, st.sy.c, st.sy.n + 1)

\* a sync() that creates every global command without looking at the fetch
GlobalDecisionAlwaysCreate(api, base) == "create"

\* the branch sync() takes for a global command
GlobalDecision(api, base) ==
    IF api = NoneCmd THEN "create"
    ELSE IF CommandNe(api, base) THEN "edit"
    ELSE "keep"

\* a sync() that does not test api_command is None for a guild command
GuildDecisionNoAbsentTest(api, glob, apiPerms, base) ==
    IF glob # NoneCmd THEN "create"
    ELSE IF CommandNe(api, base) THEN "edit"
    ELSE IF PermissionsNe(apiPerms, base.permissions) THEN "permissions"
    ELSE "keep"

\* the branch sync() takes for a guild command
GuildDecision(api, glob, apiPerms, base) ==
    IF api = NoneCmd \/ glob # NoneCmd THEN "create"
    ELSE IF CommandNe(api, base) THEN "edit"
    ELSE IF PermissionsNe(apiPerms, base.permissions) THEN "permissions"
    ELSE "keep"

LogEntry(op, scope, cmd) ==
    [op |-> op, scope |-> scope, type |-> cmd.type, name |-> cmd.name, id |-> cmd.id]

\* after get_global_command returned: print(api_command == base), the branch
GlobalFetched(st) ==
    LET ref == RefAt(cache, st.sy)
        base == st.objs[ref]
        api == get_global_command(st.remote, base.name, TypeValue(base.type))
        d == GlobalDecision(api, base)
    IN IF api # NoneCmd /\ EqRaises(base, api) THEN Raise(st, "KeyError")
       ELSE IF d = "keep" THEN GlobalAdvance(Assign(st, ref, api.id))
       ELSE [st EXCEPT !.pc = "g_write", !.sy.op = d, !.sy.api_command = api]

\* after create_global_command / edit_global_command returned
GlobalWritten(st) ==
    LET ref == RefAt(cache, st.sy)
        base == st.objs[ref]
        payload == ToDict(base)
        old == st.remote["globals"]
        new == IF st.sy.op = "create" THEN RemoteCreate(old, payload, "p0", st.nextId)
               ELSE RemoteEdit(old, st.sy.api_command.id, payload, "p0")
        new_command == FindCommand(new, payload.name, payload.type)
        st1 == [st EXCEPT !.remote["globals"] = new,
                          !.nextId = IF Len(new) > Len(old) THEN @ + 1 ELSE @,
                          !.log = Append(@, LogEntry(st.sy.op, "globals", new_command))]
    IN GlobalAdvance(Assign(st1, ref, new_command.id))

\* after get_guild_command returned: if api_command: fetch its permissions
GuildFetched(st) ==
    LET base == st.objs[RefAt(cache, st.sy)]
        api == get_guild_command(st.remote, base.name, base.type, st.sy.s)
    IN [st EXCEPT !.pc = IF api # NoneCmd THEN "gg_perms" ELSE "gg_global",
                  !.sy.api_command = api]

\* after get_command_permissions returned
GuildPermsFetched(st) ==
    LET cur == SelectSeq(st.remote[st.sy.s], LAMBDA x : x.id = st.sy.api_command.id)
    IN [st EXCEPT !.pc = "gg_global",
                  !.sy.api_permissions = IF cur = <<>> THEN "p0" ELSE cur[1].permissions]

\* guild_object._add_channel with guild_object = self._state._get_guild(int(guild))
AfterGuildCommand(st) ==
    IF \E i \in DOMAIN stateGuilds : stateGuilds[i] = st.sy.s
    THEN IF IteratorRaises(st) THEN Raise(st, "RuntimeError")
         ELSE GuildFrom(st, st.sy.gi, st.sy.c, st.sy.n + 1)
    ELSE Raise(st, "AttributeError")

\* after the second get_global_command returned: the branch
GuildGlobalFetched(st) ==
    LET ref == RefAt(cache, st.sy)
        base == st.objs[ref]
        api == st.sy.api_command
        glob == get_global_command(st.remote, base.name, EnumOperand(base.type))
        d == GuildDecision(api, glob, st.sy.api_permissions, base)
    IN IF api # NoneCmd /\ glob = NoneCmd /\ EqRaises(base, api) THEN Raise(st, "KeyError")
       ELSE IF d = "keep" THEN AfterGuildCommand(Assign(st, ref, api.id))
       ELSE [st EXCEPT !.pc = "gg_write", !.sy.op = d]

\* after create_guild_command / edit_guild_command / update_command_permissions
GuildWritten(st) ==
    LET ref == RefAt(cache, st.sy)
        base == st.objs[ref]
        g == st.sy.s
        payload == ToDict(base)
        api == st.sy.api_command
        old == st.remote[g]
        new == CASE st.sy.op = "create" -> RemoteCreate(old, payload, base.permissions, st.nextId)
                 [] st.sy.op = "edit" -> RemoteEdit(old, api.id, payload, base.permissions)
                 [] OTHER -> RemoteSetPermissions(old, api.id, base.permissions)
        new_command == FindCommand(new, payload.name, payload.type)
        st1 == [st EXCEPT !.remote[g] = new,
                          !.nextId = IF Len(new) > Len(old) THEN @ + 1 ELSE @,
                          !.log = Append(@, LogEntry(st.sy.op, g, new_command))]
    IN AfterGuildCommand(Assign(st1, ref,
                                IF st.sy.op = "permissions" THEN api.id ELSE new_command.id))

\* after get_global_commands returned, in the delete pass
DeleteGlobalFetched(st) == DelGlobalCont(st, st.remote["globals"])

\* after delete_global_command returned
GlobalDeleted(st) ==
    LET x == Head(st.sy.delList)
    IN DelGlobalCont([st EXCEPT !.remote["globals"] = RemoteDelete(@, x.id),
                                !.log = Append(@, LogEntry("delete", "globals", x))],
                     Tail(st.sy.delList))

\* after get_guild_commands returned, in the delete pass
DeleteGuildFetched(st) == DelGuildCont(st, st.remote[stateGuilds[st.sy.dgi]])

\* after delete_guild_command returned
GuildDeleted(st) ==
    LET x == Head(st.sy.delList)
        g == stateGuilds[st.sy.dgi]
    IN DelGuildCont([st EXCEPT !.remote[g] = RemoteDelete(@, x.id),
                               !.log = Append(@, LogEntry("delete", g, x))],
                    Tail(st.sy.delList))

\* ----------------------------------------------------------------- actions
\* a request of sync(): it returns, or it raises and sync() ends
Request(ok, r) ==
    /\ (~ok) => fails < MaxFailures
    /\ fails' = IF ok THEN fails ELSE fails + 1
    /\ calls' = calls + 1
    /\ Apply(IF ok THEN r ELSE Raise(Cur, "HTTPException"))
    /\ UNCHANGED otherVars
    /\ UNCHANGED <<cache, on_sync, stateGuilds, startRemote, startObjs, syncs, edits>>

\* the application constructs a command and registers it
AddCommand(t, name, opts, gids) ==
    /\ Idle
    /\ Len(objs) < MaxCmds
    /\ t = "chat_input" \/ opts = <<>>
    /\ LET b == [type |-> t, name |-> name, description |-> "d1", options |-> opts,
                 guild_ids |-> gids, id |-> 0, permissions |-> "p0", subs |-> <<>>]
       IN /\ objs' = Append(objs, b)
          /\ cache' = CacheAdd(cache, b, Len(objs) + 1)
    /\ pc' = "idle"
    /\ sy' = NoSync
    /\ UNCHANGED otherVars
    /\ UNCHANGED <<raw_cache, on_sync, stateGuilds, remote, nextId, err, log,
                   calls, notif, startRemote, startObjs, syncs, edits, fails>>

\* the application changes an attribute of a command a sync() has given its
\* id (changing one never synced is constructing it with the other value)
LocalEdit(ref, field, val) ==
    /\ Idle
    /\ edits < MaxLocalEdits
    /\ ref \in DOMAIN objs
    /\ objs[ref].id # 0
    /\ objs[ref][field] # val
    /\ field = "options" => objs[ref].type = "chat_input"
    /\ field = "description" => objs[ref].type = "chat_input"
    /\ objs' = [objs EXCEPT ![ref][field] = val]
    /\ edits' = edits + 1
    /\ pc' = "idle"
    /\ sy' = NoSync
    /\ UNCHANGED otherVars
    /\ UNCHANGED <<cache, raw_cache, on_sync, stateGuilds, remote, nextId, err,
                   log, calls, notif, startRemote, startObjs, syncs, fails>>

SetOptions == \E ref \in 1..MaxCmds, o \in OptionLists : LocalEdit(ref, "options", o)

SetDescription == \E ref \in 1..MaxCmds, d \in Descriptions : LocalEdit(ref, "description", d)

SetPermissions == \E ref \in 1..MaxCmds, p \in Permissions : LocalEdit(ref, "permissions", p)

\* CommandStore.on_sync with a coroutine function
OnSync ==
    /\ Idle
    /\ edits < MaxLocalEdits
    /\ on_sync = "default_on_sync"
    /\ on_sync' = "user_on_sync"
    /\ edits' = edits + 1
    /\ pc' = "idle"
    /\ sy' = NoSync
    /\ UNCHANGED otherVars
    /\ UNCHANGED <<objs, cache, raw_cache, stateGuilds, remote, nextId, err, log,
                   calls, notif, startRemote, startObjs, syncs, fails>>

SyncStart(du) ==
    /\ Idle
    /\ syncs < MaxSyncs
    /\ syncs' = syncs + 1
    /\ calls' = 0
    /\ startRemote' = remote
    /\ startObjs' = objs
    /\ Apply(GlobalFrom([Cur EXCEPT !.raw_cache = {},
                                    !.sy = [NoSync EXCEPT !.delete_unused = du],
                                    !.err = "", !.log = <<>>, !.notif = <<>>], 1, 1))
    /\ UNCHANGED otherVars
    /\ UNCHANGED <<cache, on_sync, stateGuilds, edits, fails>>

GlobalFetch == \E ok \in BOOLEAN : pc = "g_fetch" /\ Request(ok, GlobalFetched(Cur))

GlobalWrite == \E ok \in BOOLEAN : pc = "g_write" /\ Request(ok, GlobalWritten(Cur))

GuildFetch == \E ok \in BOOLEAN : pc = "gg_fetch" /\ Request(ok, GuildFetched(Cur))

GuildPermsFetch == \E ok \in BOOLEAN : pc = "gg_perms" /\ Request(ok, GuildPermsFetched(Cur))

GuildGlobalFetch == \E ok \in BOOLEAN : pc = "gg_global" /\ Request(ok, GuildGlobalFetched(Cur))

GuildWrite == \E ok \in BOOLEAN : pc = "gg_write" /\ Request(ok, GuildWritten(Cur))

DeleteGlobalFetch == \E ok \in BOOLEAN : pc = "del_g_fetch" /\ Request(ok, DeleteGlobalFetched(Cur))

DeleteGlobal == \E ok \in BOOLEAN : pc = "del_g" /\ Request(ok, GlobalDeleted(Cur))

DeleteGuildFetch == \E ok \in BOOLEAN : pc = "del_gg_fetch" /\ Request(ok, DeleteGuildFetched(Cur))

DeleteGuild == \E ok \in BOOLEAN : pc = "del_gg" /\ Request(ok, GuildDeleted(Cur))

Register == \E t \in AddTypes, name \in AddNames, opts \in AddOptionLists, gids \in GuildIdLists :
               AddCommand(t, name, opts, gids)

Sync == \E du \in BOOLEAN : SyncStart(du)

Next ==
    \/ Register
    \/ SetOptions
    \/ SetDescription
    \/ SetPermissions
    \/ OnSync
    \/ Sync
    \/ GlobalFetch
    \/ GlobalWrite
    \/ GuildFetch
    \/ GuildPermsFetch
    \/ GuildGlobalFetch
    \/ GuildWrite
    \/ DeleteGlobalFetch
    \/ DeleteGlobal
    \/ DeleteGuildFetch
    \/ DeleteGuild

Spec == Init /\ [][Next]_vars

TypeOK ==
    /\ pc \in {"idle", "g_fetch", "g_write", "gg_fetch", "gg_perms", "gg_global", "gg_write",
               "del_g_fetch", "del_g", "del_gg_fetch", "del_gg", "done", "failed"}
    /\ Len(objs) <= MaxCmds
    /\ syncs <= MaxSyncs

\* ------------------------------------------------------------------ routing
\* CommandStore.get_interaction_command for a payload without subcommand
\* options: the command _raw_cache holds under the id, 0 for None
get_interaction_command(rc, id) ==
    IF \E e \in rc : e.id = id THEN (CHOOSE e \in rc : e.id = id).ref ELSE 0

\* ------------------------------------------------------------------- claims
\* the entries of the cache: scope, type key, name and the object stored
EntriesOf(ch) ==
    UNION { UNION { { [scope |-> ch[i].k, type |-> ch[i].v[c].k,
                       name |-> ch[i].v[c].v[n].k, ref |-> ch[i].v[c].v[n].v]
                      : n \in DOMAIN ch[i].v[c].v }
                    : c \in DOMAIN ch[i].v }
            : i \in DOMAIN ch }

\* the remote command of an entry's scope with its name and type, in rem
Counterpart(rem, e) == FindCommand(rem[e.scope], e.name, TypeValue(e.type))

\* successful requests of kind op of the current sync() for an entry
CallsFor(op, e) ==
    Cardinality({i \in DOMAIN log : /\ log[i].op = op
                                    /\ log[i].scope = e.scope
                                    /\ log[i].type = TypeValue(e.type)
                                    /\ log[i].name = e.name})

OpsInLog(op) == {i \in DOMAIN log : log[i].op = op}

\* C1: after a sync() that returned, every command of the cache, global or
\* of a guild, has an id and is in _raw_cache, and get_interaction_command
\* resolves the id the platform holds for it to that command.
C1_SyncRegistersEveryCommand ==
    pc = "done" =>
        \A e \in EntriesOf(cache) :
            /\ objs[e.ref].id # 0
            /\ \E x \in raw_cache : x.ref = e.ref
            /\ Counterpart(remote, e) # NoneCmd
            /\ get_interaction_command(raw_cache, Counterpart(remote, e).id) = e.ref

C1_Witness ==
    /\ pc = "done"
    /\ \E e1, e2, e3 \in EntriesOf(cache) :
          /\ e1.scope = "globals" /\ e2.scope = "g1" /\ e3.scope = "g2"
          /\ e2.ref = e3.ref
    /\ OpsInLog("create") # {}


\* an entry without remote counterpart when the current sync() started
Lacking(e) == Counterpart(startRemote, e) = NoneCmd

\* C2 as stated: the first sync() of a store issues exactly one create call
\* for each command without remote counterpart, and no edit call at all.
C2_FirstSyncCreatesAndNeverEdits ==
    (pc = "done" /\ syncs = 1) =>
        /\ \A e \in EntriesOf(cache) : Lacking(e) => CallsFor("create", e) = 1
        /\ OpsInLog("edit") = {}

\* C2 amended: the first sync() of a store issues exactly one create call and
\* no edit call for each command without remote counterpart; every edit call
\* it issues is for a command the platform held before the sync() started.
C2_FirstSyncCreatesTheLacking ==
    (pc = "done" /\ syncs = 1) =>
        /\ \A e \in EntriesOf(cache) :
              Lacking(e) => CallsFor("create", e) = 1 /\ CallsFor("edit", e) = 0
        /\ \A i \in OpsInLog("edit") :
              \E k \in DOMAIN startRemote[log[i].scope] :
                  /\ startRemote[log[i].scope][k].id = log[i].id
                  /\ startRemote[log[i].scope][k].name = log[i].name
                  /\ startRemote[log[i].scope][k].type = log[i].type

C2_Witness ==
    /\ pc = "done" /\ syncs = 1
    /\ \E e1, e2 \in EntriesOf(cache) :
          /\ Lacking(e1) /\ CallsFor("create", e1) = 1
          /\ ~Lacking(e2) /\ CallsFor("edit", e2) = 1

\* the current sync() is over and no request of it failed
SyncEnded == pc = "done" \/ (pc = "failed" /\ err # "HTTPException")

\* an earlier sync() gave the entry's command the id of its remote counterpart
RegisteredBefore(e) ==
    /\ e.ref \in DOMAIN startObjs
    /\ startObjs[e.ref].id # 0
    /\ Counterpart(startRemote, e).id = startObjs[e.ref].id

\* the options the command would send are not the options the platform held
OptionsDiffer(e) == ToDict(objs[e.ref]).options # Counterpart(startRemote, e).options

\* C3: a command registered by an earlier sync() whose options were then
\* changed locally gets exactly one edit call and no create call from the
\* next sync().
C3_ChangedOptionsAreEdited ==
    SyncEnded =>
        \A e \in EntriesOf(cache) :
            (RegisteredBefore(e) /\ OptionsDiffer(e)) =>
                CallsFor("edit", e) = 1 /\ CallsFor("create", e) = 0

\* the platform held, when the sync started, a command equal to the entry's
\* command in type, name, description and options, and for a guild command
\* in permissions
Identical(e) ==
    LET rc == Counterpart(startRemote, e)
        p == ToDict(objs[e.ref])
    IN /\ rc # NoneCmd
       /\ rc.description = p.description
       /\ rc.options = p.options
       /\ (e.scope # "globals" => rc.permissions = objs[e.ref].permissions)

\* a guild entry whose name and type the platform also held as a global command
Shadowed(e) ==
    e.scope # "globals" /\ get_global_command(startRemote, e.name, TypeValue(e.type)) # NoneCmd

\* C4: when every local command has an identical remote counterpart, with
\* identical permissions for a guild command, sync() issues no create call,
\* no edit call and no permissions update.  Stated for the stores none of
\* whose guild commands has a global namesake on the platform.
C4_IdenticalCommandsAreLeftAlone ==
    (SyncEnded /\ \A e \in EntriesOf(cache) : Identical(e) /\ ~Shadowed(e)) =>
        OpsInLog("create") \cup OpsInLog("edit") \cup OpsInLog("permissions") = {}

\* the entry's command differs from its remote counterpart in description or
\* options (name and type are those of the counterpart)
Differs(e) ==
    LET rc == Counterpart(startRemote, e)
        p == ToDict(objs[e.ref])
    IN rc # NoneCmd /\ (rc.description # p.description \/ rc.options # p.options)

\* C5: a local command that differs from its remote counterpart in type,
\* name, description or options is edited by sync(), and its id is then the
\* id of the remote command edited.  Stated for the global commands of a
\* sync() that returned.
C5_EveryDifferenceIsEdited ==
    pc = "done" =>
        \A e \in EntriesOf(cache) :
            (e.scope = "globals" /\ Differs(e)) =>
                /\ CallsFor("edit", e) >= 1
                /\ objs[e.ref].id = Counterpart(startRemote, e).id

\* the action C6 prescribes for a guild command
PrescribedGuildAction(api, glob, base) ==
    LET p == ToDict(base)
    IN IF api = NoneCmd \/ glob # NoneCmd THEN "create"
       ELSE IF api.description # p.description \/ api.options # p.options THEN "edit"
       ELSE IF api.permissions # base.permissions THEN "permissions"
       ELSE "keep"

\* C6: for a guild command sync() creates if the guild has no such command or
\* a global one of that name and type exists, else edits if the remote
\* command differs structurally, else updates the permissions if only they
\* differ, else issues no modifying call.  Here: every modifying call about
\* to be issued is the prescribed one.
C6_GuildActionIsThePrescribedOne ==
    pc = "gg_write" =>
        sy.op = PrescribedGuildAction(
                    sy.api_command,
                    get_global_command(remote, objs[RefAt(cache, sy)].name,
                                       EnumOperand(objs[RefAt(cache, sy)].type)),
                    objs[RefAt(cache, sy)])

\* a local entry of the scope with the type and name of a remote command
Matched(scope, cmd) ==
    \E e \in EntriesOf(cache) :
        e.scope = scope /\ TypeValue(e.type) = cmd.type /\ e.name = cmd.name

Running == pc \notin {"idle", "done", "failed"}

\* C7: sync() issues a delete only with delete_unused=True, never for a
\* remote command whose type and name match a local command of the same
\* scope, and so never for a command it created or edited before.
C7_DeletesOnlyTheUnmatched ==
    pc # "idle" =>
        \A i \in OpsInLog("delete") :
            /\ sy.delete_unused
            /\ ~Matched(log[i].scope, log[i])
            /\ \A j \in DOMAIN log :
                   (log[j].op # "delete" /\ log[j].scope = log[i].scope) =>
                       log[j].id # log[i].id

C7_Witness ==
    /\ pc = "done"
    /\ \E i \in OpsInLog("delete"), j \in OpsInLog("create") \cup OpsInLog("edit") :
           j < i /\ log[i].scope = log[j].scope
    /\ \E s \in Scopes : \E k \in DOMAIN startRemote[s] : Matched(s, startRemote[s][k])

\* the delete calls of the current sync() for a remote command
DeleteCalls(scope, cmd) ==
    Cardinality({i \in OpsInLog("delete") : log[i].scope = scope /\ log[i].id = cmd.id})

\* the remote commands of the scopes in S that had no local match are gone,
\* each by one delete call
UnmatchedDeletedIn(S) ==
    \A s \in S : \A k \in DOMAIN startRemote[s] :
        ~Matched(s, startRemote[s][k]) =>
            /\ \A x \in DOMAIN remote[s] : remote[s][x].id # startRemote[s][k].id
            /\ DeleteCalls(s, startRemote[s][k]) = 1

\* C8 as stated: after sync(delete_unused=True) returned, every remote
\* command, global or of any guild, with no local match in its scope has
\* been deleted by exactly one delete call.
C8_EveryUnmatchedIsDeleted ==
    (pc = "done" /\ sy.delete_unused) => UnmatchedDeletedIn(Scopes)

\* the guilds of the connection state, as scopes
StateScopes == {"globals"} \cup {stateGuilds[i] : i \in DOMAIN stateGuilds}

\* C8 amended: after sync(delete_unused=True) returned, every remote command
\* that is global or of a guild of the connection state and has no local
\* match in its scope has been deleted by exactly one delete call.
C8_EveryUnmatchedOfKnownGuildsIsDeleted ==
    (pc = "done" /\ sy.delete_unused) => UnmatchedDeletedIn(StateScopes)

C8_Witness ==
    /\ pc = "done" /\ sy.delete_unused
    /\ \E i, j \in OpsInLog("delete") : log[i].scope = "globals" /\ log[j].scope # "globals"
    /\ \E s \in Scopes : \E k \in DOMAIN startRemote[s] : Matched(s, startRemote[s][k])

\* C9 as stated: on a sync() that completes the on_sync callback is invoked
\* first and the 'commands_synced' event is dispatched after it.
C9_CallbackThenEvent == pc = "done" => notif = << on_sync, "commands_synced" >>

\* C9 amended: on a sync() that completes the 'commands_synced' event is
\* dispatched first and the on_sync callback is awaited after it; neither
\* happens while the sync() is running or when it failed, and no request
\* follows them.
C9_EventThenCallback ==
    [][ /\ (pc # "done" /\ pc' = "done") => notif' = << "commands_synced", on_sync >>
        /\ (pc' \notin {"done", "idle"}) => notif' = <<>>
        /\ (notif # <<>> /\ syncs' = syncs) =>
               (calls' = calls /\ log' = log /\ remote' = remote) ]_vars

C9_Witness ==
    /\ pc = "done"
    /\ on_sync = "user_on_sync"
    /\ notif = << "commands_synced", "user_on_sync" >>
    /\ OpsInLog("delete") # {}
    /\ OpsInLog("create") # {}

\* C10: a request of sync() that fails ends the sync() with that failure:
\* no request follows, none is retried, neither the callback nor the event
\* is fired, and the remote changes and the ids assigned before it stay.
C10_FailurePropagates ==
    [][ /\ (pc # "failed" /\ pc' = "failed" /\ err' = "HTTPException") =>
               /\ remote' = remote
               /\ objs' = objs
               /\ raw_cache' = raw_cache
               /\ log' = log
               /\ notif' = <<>>
        /\ (pc = "failed" /\ syncs' = syncs) =>
               /\ pc' \in {"failed", "idle"}
               /\ calls' = calls
               /\ remote' = remote
               /\ log' = log
               /\ notif' = notif ]_vars

C10_Witness ==
    /\ pc = "failed"
    /\ err = "HTTPException"
    /\ log # <<>>
    /\ remote # startRemote
    /\ \E r \in DOMAIN startObjs : startObjs[r].id = 0 /\ objs[r].id # 0

\* the platform holds exactly one command with the entry's name and type in
\* the entry's scope
ExistsOnce(e) ==
    Cardinality({k \in DOMAIN remote[e.scope] :
                    /\ remote[e.scope][k].name = e.name
                    /\ remote[e.scope][k].type = TypeValue(e.type)}) = 1

\* the entry's command has an id and _raw_cache maps the remote id to it
Registered(e) ==
    /\ objs[e.ref].id # 0
    /\ \E x \in raw_cache : x.ref = e.ref /\ x.id = Counterpart(remote, e).id

\* a sync() returned after a request of an earlier sync() had failed
ResyncedAfterFailure == pc = "done" /\ fails >= 1

\* C11 as stated: after a failed sync() and a later sync() that ran without
\* failure every local command exists remotely once in its scope, has its
\* remote id and a _raw_cache entry, and a command registered before gets no
\* second create call.
C11_ResyncConvergesWithoutSecondCreate ==
    ResyncedAfterFailure =>
        \A e \in EntriesOf(cache) :
            /\ ExistsOnce(e)
            /\ Registered(e)
            /\ RegisteredBefore(e) => CallsFor("create", e) = 0

\* a guild entry whose name and type the platform held as a global command
\* before or after the sync()
HasGlobalNamesake(e) ==
    \/ Shadowed(e)
    \/ e.scope # "globals" /\ get_global_command(remote, e.name, TypeValue(e.type)) # NoneCmd

\* C11 amended: as above, but the guild commands with a global namesake on
\* the platform are left out of the part on create calls (sync() sends a
\* create for them every time, and the platform overwrites).
C11_ResyncConverges ==
    ResyncedAfterFailure =>
        \A e \in EntriesOf(cache) :
            /\ ExistsOnce(e)
            /\ Registered(e)
            /\ (RegisteredBefore(e) /\ ~HasGlobalNamesake(e)) => CallsFor("create", e) = 0

C11_Witness ==
    /\ ResyncedAfterFailure
    /\ \E e1, e2 \in EntriesOf(cache) :
           /\ RegisteredBefore(e1) /\ ~HasGlobalNamesake(e1) /\ CallsFor("create", e1) = 0
           /\ Lacking(e2) /\ CallsFor("create", e2) = 1

\* every command held in _raw_cache has an id
RawCacheIdsSet == \A x \in raw_cache : x.ref \in DOMAIN objs /\ objs[x.ref].id # 0

\* C12 as stated: every command in _raw_cache has a non-null id, and
\* _raw_cache is empty unless a sync() has completed; here for the store
\* whose only sync() failed partway.
C12_NoEntriesWithoutCompletedSync ==
    /\ RawCacheIdsSet
    /\ (pc = "failed" /\ syncs = 1) => raw_cache = {}

\* C12 amended: every command in _raw_cache has a non-null id, _raw_cache is
\* empty as long as no sync() was started, and what a sync() that ended, by
\* returning or by failing, has put there is the id of a remote command
\* with the name and type of the command stored under it.
C12_RawCacheHoldsRegisteredCommands ==
    /\ RawCacheIdsSet
    /\ syncs = 0 => raw_cache = {}
    /\ pc \in {"done", "failed"} =>
           \A x \in raw_cache :
               \E sc \in Scopes : \E k \in DOMAIN remote[sc] :
                   /\ remote[sc][k].id = x.id
                   /\ remote[sc][k].name = objs[x.ref].name
                   /\ remote[sc][k].type = TypeValue(objs[x.ref].type)

C12_Witness ==
    /\ pc = "failed" /\ syncs = 1 /\ err = "HTTPException"
    /\ raw_cache # {}
    /\ \E e \in EntriesOf(cache) : \A x \in raw_cache : x.ref # e.ref

\* ------------------------------------------------- subcommands and routing
MaxSubs == 3

\* names of subcommands and of subcommand groups
SubNames == {"s", "g"}

\* no SubSlashCommand
NoSub == [obj |-> 0, name |-> "", group_name |-> ""]

\* an entry of __subcommands__: a SubSlashCommand, or a dict of them
SubNode(command) == [kind |-> "sub", cmd |-> command, subs |-> <<>>]

GroupNode(subs) == [kind |-> "group", cmd |-> NoSub, subs |-> subs]

\* SlashCommand.add_subcommand: the new __subcommands__ and the exception
add_subcommand(tree, command) ==
    IF command.group_name # ""
    THEN LET t1 == IF ~Has(tree, command.group_name)
                   THEN Put(tree, command.group_name, GroupNode(<<>>))
                   ELSE tree
             node == Get(t1, command.group_name)
         IN IF node.kind = "group"
            THEN [tree |-> Put(t1, command.group_name,
                               GroupNode(Put(node.subs, command.name, SubNode(command)))),
                  err |-> ""]
            ELSE [tree |-> t1, err |-> "TypeError"]
    ELSE [tree |-> Put(tree, command.name, SubNode(command)), err |-> ""]

\* the descent of get_interaction_command into the subcommands of a command
Descend(ref, tree, data) ==
    IF ~data.hasOptions THEN Outcome("command", ref, 0)
    ELSE IF data.options = <<>> THEN Outcome("IndexError", 0, 0)
    ELSE LET first == data.options[1]
         IN IF first.type \notin {"subcommand", "subcommand_group"}
            THEN Outcome("command", ref, 0)
            ELSE IF ~Has(tree, first.name) THEN Outcome("None", 0, 0)
            ELSE LET base_one == Get(tree, first.name)
                 IN IF first.type = "subcommand"
                    THEN IF base_one.kind = "sub"
                         THEN Outcome("subcommand", 0, base_one.cmd.obj)
                         ELSE Outcome("dict", 0, 0)
                    ELSE IF base_one.kind = "sub" THEN Outcome("TypeError", 0, 0)
                    ELSE IF ~Has(base_one.subs, first.options[1].name)
                         THEN Outcome("None", 0, 0)
                    ELSE Outcome("subcommand", 0,
                                 Get(base_one.subs, first.options[1].name).cmd.obj)

\* a lookup that falls back to the first command of the store
InteractionCommandOrFirst(rc, tree, data) == Descend(1, tree, data)

\* CommandStore.get_interaction_command
InteractionCommand(rc, tree, data) ==
    LET command == get_interaction_command(rc, data.id)
    IN IF command = 0 THEN Outcome("None", 0, 0)
       ELSE Descend(command, tree, data)

Option(type, name, options) == [type |-> type, name |-> name, options |-> options]

\* the option lists interaction payloads carry
PayloadOptions ==
    {<<>>, <<Option("string", "x", <<>>)>>}
    \cup {<<Option("subcommand", n, <<>>)>> : n \in SubNames}
    \cup {<<Option("subcommand_group", g, <<Option("subcommand", n, <<>>)>>)>> :
             g \in SubNames, n \in SubNames}

\* the payloads: the id of the registered command or an unknown one
Payloads ==
    {[id |-> i, hasOptions |-> FALSE, options |-> <<>>] : i \in {1, 2}}
    \cup {[id |-> i, hasOptions |-> TRUE, options |-> o] : i \in {1, 2}, o \in PayloadOptions}

\* the store after a first sync() that registered the slash command "a"
SyncedOnce ==
    LET b == [type |-> "chat_input", name |-> "a", description |-> "d1",
              options |-> <<Opt1>>, guild_ids |-> <<>>, id |-> 0, permissions |-> "p0",
              subs |-> <<>>]
        api == Stored(ToDict(b), 1, "p0")
    IN /\ objs = <<[b EXCEPT !.id = 1]>>
       /\ cache = CacheAdd(ClearedCache, b, 1)
       /\ raw_cache = RawPut({}, 1, 1)
       /\ on_sync = "default_on_sync"
       /\ stateGuilds = <<"g1", "g2">>
       /\ remote = [RemoteEmpty EXCEPT !["globals"] = <<api>>]
       /\ nextId = 2
       /\ pc = "done"
       /\ sy = [NoSync EXCEPT !.c = 1, !.n = 1, !.op = "create", !.base = 1]
       /\ err = ""
       /\ log = <<LogEntry("create", "globals", api)>>
       /\ calls = 2
       /\ notif = Notifications("default_on_sync")
       /\ startRemote = RemoteEmpty
       /\ startObjs = <<b>>
       /\ syncs = 1
       /\ edits = 0
       /\ fails = 0

RouteInit == SyncedOnce /\ OthersIdle

\* a SubSlashCommand is constructed and added to the command "a"
AddSubcommand ==
    \E g \in SubNames \cup {""}, n \in SubNames :
        /\ nextSub < MaxSubs
        /\ LET command == [obj |-> nextSub + 1, name |-> n, group_name |-> g]
               r == add_subcommand(subcommands, command)
           IN /\ subcommands' = r.tree
              /\ routed' = [op |-> "add_subcommand", data |-> NoData,
                            out |-> Outcome(IF r.err = "" THEN "None" ELSE r.err, 0, 0)]
        /\ nextSub' = nextSub + 1
        /\ UNCHANGED notRouteVars

\* an interaction arrives and its command is looked up
Route ==
    \E data \in Payloads :
        /\ routed' = [op |-> "get_interaction_command", data |-> data,
                      out |-> InteractionCommand(raw_cache, subcommands, data)]
        /\ UNCHANGED <<subcommands, nextSub>>
        /\ UNCHANGED notRouteVars

RouteNext == AddSubcommand \/ Route

RouteSpec == RouteInit /\ [][RouteNext]_vars

\* the last call was get_interaction_command
Looked == routed.op = "get_interaction_command"

InRawCache(id) == \E e \in raw_cache : e.id = id

\* C13: get_interaction_command returns None, and raises nothing, whenever
\* the command id of the payload is not a key of _raw_cache, whatever the
\* options of the payload.
C13_UnknownIdGivesNone ==
    (Looked /\ ~InRawCache(routed.data.id)) => routed.out = Outcome("None", 0, 0)

C13_Witness ==
    /\ Looked
    /\ ~InRawCache(routed.data.id)
    /\ routed.data.hasOptions
    /\ routed.data.options # <<>>
    /\ routed.data.options[1].type = "subcommand_group"
    /\ Descend(1, subcommands, routed.data).kind = "subcommand"
    /\ routed.out.kind = "None"

\* the first option of the payload is tagged subcommand or subcommand_group
Tagged(data) ==
    /\ data.hasOptions
    /\ data.options # <<>>
    /\ data.options[1].type \in {"subcommand", "subcommand_group"}

\* what C14 prescribes: the leaf registered under the name(s), else None
LeafFor(tree, data) ==
    LET first == data.options[1]
        top == IF Has(tree, first.name) THEN Get(tree, first.name) ELSE GroupNode(<<>>)
    IN IF first.type = "subcommand"
       THEN IF top.kind = "sub" THEN Outcome("subcommand", 0, top.cmd.obj)
            ELSE Outcome("None", 0, 0)
       ELSE IF top.kind = "group" /\ Has(top.subs, first.options[1].name)
            THEN Outcome("subcommand", 0, Get(top.subs, first.options[1].name).cmd.obj)
            ELSE Outcome("None", 0, 0)

\* C14: for a payload whose id is in _raw_cache and whose first option is
\* tagged subcommand or subcommand_group, get_interaction_command returns
\* the leaf registered under the name(s) and None whenever a step of the
\* descent misses; it raises nothing and never returns a group mapping.
C14_DescentGivesLeafOrNone ==
    (Looked /\ InRawCache(routed.data.id) /\ Tagged(routed.data)) =>
        routed.out = LeafFor(subcommands, routed.data)

\* ---------------------------------------------------------------- dispatch
MaxInteractions == 3

\* the types of application command interactions, and one the library does
\* not know
InteractionTypes == {"chat_input", "user", "message", "other"}

\* the type-specific event of dispatch, "" for a type without one
TypeEvent(type) ==
    CASE type = "chat_input" -> "slash_command"
      [] type = "user" -> "user_command"
      [] type = "message" -> "message_command"
      [] OTHER -> ""

Emit(ev, n, what) == Append(ev, [n |-> n, what |-> what])

\* a dispatch that awaits the callback of the command
dispatchAwaiting(ev, tk, n, type, hasCommand) ==
    LET e1 == Emit(ev, n, "application_command")
        e2 == IF TypeEvent(type) # "" THEN Emit(e1, n, TypeEvent(type)) ELSE e1
    IN IF hasCommand
       THEN [events |-> Emit(e2, n, "create_task"), tasks |-> Append(tk, "pending"),
             caller |-> [at |-> "awaiting", task |-> Len(tk) + 1]]
       ELSE [events |-> e2, tasks |-> tk, caller |-> Free]

\* CommandStore.dispatch: the events, then the task of the callback
dispatch(ev, tk, n, type, hasCommand) ==
    LET e1 == Emit(ev, n, "application_command")
        e2 == IF TypeEvent(type) # "" THEN Emit(e1, n, TypeEvent(type)) ELSE e1
    IN IF hasCommand
       THEN [events |-> Emit(e2, n, "create_task"), tasks |-> Append(tk, "pending"),
             caller |-> Free]
       ELSE [events |-> e2, tasks |-> tk, caller |-> Free]

\* interactions dispatched so far
Dispatched == Cardinality({events[i].n : i \in DOMAIN events})

\* the ingestion path calls dispatch for the next interaction
Dispatch ==
    \E type \in InteractionTypes, hasCommand \in BOOLEAN :
        /\ caller = Free
        /\ Dispatched < MaxInteractions
        /\ LET r == dispatch(events, tasks, Dispatched + 1, type, hasCommand)
           IN events' = r.events /\ tasks' = r.tasks /\ caller' = r.caller
        /\ UNCHANGED notDispatchVars

\* the event loop runs a task: the callback starts, and later returns or
\* raises; a callback that never finishes stays "running"
TaskStep ==
    \E k \in DOMAIN tasks, to \in {"running", "done", "raised"} :
        /\ \/ tasks[k] = "pending" /\ to = "running"
           \/ tasks[k] = "running" /\ to \in {"done", "raised"}
        /\ tasks' = [tasks EXCEPT ![k] = to]
        /\ caller' = IF caller.at = "awaiting" /\ caller.task = k /\ to # "running"
                     THEN (IF to = "raised" THEN [at |-> "raised", task |-> k] ELSE Free)
                     ELSE caller
        /\ UNCHANGED events
        /\ UNCHANGED notDispatchVars

DispatchNext == Dispatch \/ TaskStep

DispatchInit == /\ SyncedOnce
                /\ OthersIdle

DispatchSpec == DispatchInit /\ [][DispatchNext]_vars

\* position of an entry of an interaction in events, 0 if there is none
PosOf(n, what) ==
    IF \E i \in DOMAIN events : events[i] = [n |-> n, what |-> what]
    THEN CHOOSE i \in DOMAIN events : events[i] = [n |-> n, what |-> what]
    ELSE 0

\* C15: dispatch emits 'application_command' and the type-specific event
\* before it schedules the callback, schedules the callback as a task it
\* does not await and returns: whatever the tasks do, the caller is free for
\* the next interaction and no exception of a callback reaches it.
C15_DispatchFiresAndForgets ==
    /\ caller = Free
    /\ Dispatched < MaxInteractions => ENABLED Dispatch
    /\ \A n \in 1..Dispatched :
           /\ PosOf(n, "application_command") # 0
           /\ PosOf(n, "create_task") # 0 =>
                  /\ PosOf(n, "application_command") < PosOf(n, "create_task")
                  /\ \A w \in {"slash_command", "user_command", "message_command"} :
                         PosOf(n, w) # 0 =>
                             /\ PosOf(n, "application_command") < PosOf(n, w)
                             /\ PosOf(n, w) < PosOf(n, "create_task")
    /\ Cardinality({i \in DOMAIN events : events[i].what = "create_task"}) = Len(tasks)

C15_Witness ==
    /\ Len(tasks) = 3
    /\ tasks[1] = "running"
    /\ tasks[2] = "raised"
    /\ PosOf(3, "slash_command") # 0
    /\ PosOf(3, "create_task") # 0

\* --------------------------------------------------------------- responses
MaxCalls == 3

InteractionTypeValues == {"ping", "application_command", "component"}

ArgSets == [content : BOOLEAN, embed : BOOLEAN, embeds : BOOLEAN,
            ninja_mode : BOOLEAN, force : BOOLEAN]

\* the arguments each operation takes
ArgsOf(op) ==
    {a \in ArgSets :
        /\ op \in {"defer", "pong", "idefer"} => a = NoArgs
        /\ op \in {"send_message", "edit_message"} => ~a.ninja_mode /\ ~a.force
        /\ op = "respond" => ~a.force
        /\ op = "send" => ~a.ninja_mode}

\* a call of InteractionResponse that tests nothing before it sends
ResponseEntryUnguarded(op, a, resp, type) ==
    CASE op = "defer" ->
           IF type \in {"component", "application_command"} THEN [pc |-> "initial", err |-> ""]
           ELSE [pc |-> "returned", err |-> ""]
      [] op = "pong" ->
           IF type = "ping" THEN [pc |-> "initial", err |-> ""]
           ELSE [pc |-> "returned", err |-> ""]
      [] OTHER -> [pc |-> "initial", err |-> ""]

\* InteractionResponse.defer / pong / send_message / edit_message up to the
\* request: where the call stands, and the exception it raised
ResponseEntry(op, a, resp, type) ==
    IF resp THEN [pc |-> "raised", err |-> "InteractionResponded"]
    ELSE CASE op = "defer" ->
                IF type \in {"component", "application_command"}
                THEN [pc |-> "initial", err |-> ""]
                ELSE [pc |-> "returned", err |-> ""]
           [] op = "pong" ->
                IF type = "ping" THEN [pc |-> "initial", err |-> ""]
                ELSE [pc |-> "returned", err |-> ""]
           [] op = "send_message" ->
                IF a.embed /\ a.embeds THEN [pc |-> "raised", err |-> "TypeError"]
                ELSE [pc |-> "initial", err |-> ""]
           [] OTHER ->
                IF type # "component" THEN [pc |-> "returned", err |-> ""]
                ELSE IF a.embed /\ a.embeds THEN [pc |-> "raised", err |-> "TypeError"]
                ELSE [pc |-> "initial", err |-> ""]

\* Interaction.respond after the ninja part: send() once responded, else the
\* edit of the deferred original or the initial response
RespondMain(i) ==
    IF i.responded THEN "followup"
    ELSE IF i.deferred THEN "edit_original"
    ELSE "initial"

\* all(y in [None, False] ...) over the arguments of respond
AllNone(a) == ~a.content /\ ~a.embed /\ ~a.embeds

\* Interaction.defer / respond / send up to the first request
InteractionEntry(op, a, i) ==
    CASE op = "idefer" -> IF i.deferred THEN "returned" ELSE "defer"
      [] op = "respond" -> IF a.ninja_mode \/ AllNone(a) THEN "ninja" ELSE RespondMain(i)
      [] OTHER ->
           IF ~a.force /\ ~i.responded
           THEN (IF AllNone(a) THEN "ninja" ELSE RespondMain(i))
           ELSE "followup"

Flags == [responded |-> responded, deferred |-> inter.deferred, iresponded |-> inter.responded]

NoCallInFlight == call.pc \in {"", "returned", "raised"}

\* a call on the InteractionResponse of the interaction begins
ResponseCall ==
    \E op \in {"defer", "pong", "send_message", "edit_message"} : \E a \in ArgsOf(op) :
        /\ NoCallInFlight
        /\ call.n < MaxCalls
        /\ LET e == ResponseEntry(op, a, responded, itype)
           IN call' = [obj |-> "response", op |-> op, args |-> a, pc |-> e.pc, err |-> e.err,
                       requests |-> 0, n |-> call.n + 1, before |-> Flags]
        /\ UNCHANGED <<itype, responded, inter, sent>>
        /\ UNCHANGED notRespVars

\* _responded once the request returned, set without looking at the outcome
AfterResponseAlways(ok, resp) == TRUE

\* _responded once the awaited create_interaction_response returned (ok), or
\* raised: the assignment after the await is skipped by the exception
AfterResponse(ok, resp) == IF ok THEN TRUE ELSE resp

\* InteractionResponse.is_done
is_done == responded

\* adapter.create_interaction_response returns or raises
ResponseRequest ==
    \E ok \in BOOLEAN :
        /\ call.obj = "response"
        /\ call.pc = "initial"
        /\ responded' = AfterResponse(ok, responded)
        /\ sent' = IF ok THEN [sent EXCEPT !.initial = @ + 1]
                   ELSE [sent EXCEPT !.failed = @ + 1]
        /\ call' = [call EXCEPT !.pc = IF ok THEN "returned" ELSE "raised",
                                !.err = IF ok THEN "" ELSE "HTTPException",
                                !.requests = @ + 1]
        /\ UNCHANGED <<itype, inter>>
        /\ UNCHANGED notRespVars

\* a call on the Interaction begins
InteractionCall ==
    \E op \in {"idefer", "respond", "send"} : \E a \in ArgsOf(op) :
        /\ NoCallInFlight
        /\ call.n < MaxCalls
        /\ call' = [obj |-> "interaction", op |-> op, args |-> a,
                    pc |-> InteractionEntry(op, a, inter), err |-> "",
                    requests |-> 0, n |-> call.n + 1, before |-> Flags]
        /\ UNCHANGED <<itype, responded, inter, sent>>
        /\ UNCHANGED notRespVars

\* where a call of Interaction goes when its request returned
AfterRequest(at) ==
    CASE at \in {"initial", "edit_original"} -> "fetch"
      [] OTHER -> "returned"

\* the request a call of Interaction awaits returns, or raises; "refused" is
\* the HTTPException "value must be one of (4, 5)" for the ninja request
InteractionRequest ==
    \E res \in {"ok", "refused", "raised"} :
        /\ call.obj = "interaction"
        /\ call.pc \in {"defer", "ninja", "initial", "edit_original", "followup", "fetch"}
        /\ res = "refused" => call.pc = "ninja"
        /\ inter' = IF res # "ok" THEN inter
                    ELSE CASE call.pc = "defer" -> [inter EXCEPT !.deferred = TRUE]
                           [] call.pc \in {"ninja", "initial", "edit_original"} ->
                                [inter EXCEPT !.responded = TRUE]
                           [] OTHER -> inter
        /\ sent' = IF res # "ok" THEN [sent EXCEPT !.failed = @ + 1]
                   ELSE CASE call.pc \in {"defer", "ninja", "initial"} ->
                                [sent EXCEPT !.respond_to = @ + 1]
                          [] call.pc = "edit_original" -> [sent EXCEPT !.edit_original = @ + 1]
                          [] call.pc = "followup" -> [sent EXCEPT !.followup = @ + 1]
                          [] OTHER -> [sent EXCEPT !.fetch = @ + 1]
        /\ call' = [call EXCEPT
                      !.pc = CASE res = "ok" -> AfterRequest(call.pc)
                               [] res = "refused" -> RespondMain(inter)
                               [] OTHER -> "raised",
                      !.err = IF res = "raised" THEN "HTTPException" ELSE "",
                      !.requests = @ + 1]
        /\ UNCHANGED <<itype, responded>>
        /\ UNCHANGED notRespVars

RespNext == ResponseCall \/ ResponseRequest \/ InteractionCall \/ InteractionRequest

RespInit ==
    /\ SyncedOnce
    /\ RouteIdle
    /\ DispatchIdle
    /\ StoreIdle
    /\ LateIdle
    /\ PartIdle
    /\ CompIdle
    /\ itype \in InteractionTypeValues
    /\ responded = FALSE
    /\ inter = [deferred |-> FALSE, responded |-> FALSE]
    /\ sent = NothingSent
    /\ call = NoResponseCall

RespSpec == RespInit /\ [][RespNext]_vars

\* the call made last, or in flight, is one of the four operations of
\* InteractionResponse and began after the initial response had been sent
LaterResponseCall == call.obj = "response" /\ call.before.responded

\* C16: once defer, pong, send_message or edit_message of an
\* InteractionResponse has sent the initial response, every later call of one
\* of the four raises InteractionResponded without issuing a request, so that
\* calls made one after the other send at most one initial response
C16_OneInitialResponse ==
    /\ sent.initial <= 1
    /\ LaterResponseCall =>
         /\ call.pc = "raised"
         /\ call.err = "InteractionResponded"
         /\ call.requests = 0

\* a call made after the initial response was sent has raised
C16_Witness ==
    /\ LaterResponseCall
    /\ sent.initial = 1
    /\ call.pc = "raised"
    /\ call.op \in {"send_message", "defer"}

\* the call made last, or in flight, was given both embed and embeds
BothEmbedArguments == call.args.embed /\ call.args.embeds

\* C17: a send or edit call given both the single-embed and the multi-embed
\* argument raises an invalid-argument error before any request is issued and
\* leaves the responded state unchanged; stated for Interaction.respond
C17_BothEmbedArgumentsAreRejected ==
    (call.obj = "interaction" /\ call.op = "respond" /\ BothEmbedArguments) =>
        /\ call.pc = "raised"
        /\ call.err = "TypeError"
        /\ call.requests = 0
        /\ Flags = call.before

\* -------------------------------------------------------------- components
MaxComponents == 6
MaxStoreCalls == 2
MaxStoreSyncs == 1

\* an object: its class, the position it had in the list handed over (0 for
\* an object the store creates) and, for a row, what it holds
Obj(cls, id, components) == [cls |-> cls, id |-> id, components |-> components]

\* ActionRow(components)
ActionRow(components) == Obj("ActionRow", 0, components)

\* the component handed over at position i: a button, a select menu, or an
\* ActionRow holding one button
Given(cls, i) ==
    IF cls = "ActionRow" THEN Obj(cls, i, <<Obj("Button", i, <<>>)>>)
    ELSE Obj(cls, i, <<>>)

ComponentClasses == {"Button", "LinkButton", "SelectMenu", "ActionRow"}

\* the flat lists handed to ComponentStore
FlatLists ==
    UNION { { [i \in 1..n |-> Given(k[i], i)] : k \in [1..n -> ComponentClasses] }
            : n \in 0..MaxComponents }

\* ComponentStore.add_row(*components): the tuple of arguments is never a
\* list, and list(components) is appended as it is
add_row(rows, components) == Append(rows, Obj("list", 0, components))

\* the loop of ComponentStore.__init__ over a flat list, from position i on,
\* with the loose components gathered in row
RECURSIVE Pack(_, _, _, _)
Pack(components, i, row, rows) ==
    IF i > Len(components)
    THEN (IF Len(row) > 0 THEN Append(rows, ActionRow(row)) ELSE rows)
    ELSE LET c == components[i]
             flushed == IF Len(row) > 0 THEN Append(rows, ActionRow(row)) ELSE rows
         IN CASE c.cls = "SelectMenu" -> Pack(components, i + 1, <<>>, Append(flushed, ActionRow(<<c>>)))
              [] c.cls = "ActionRow" -> Pack(components, i + 1, <<>>, add_row(flushed, <<c>>))
              [] OTHER -> Pack(components, i + 1, Append(row, c), rows)

\* a constructor that puts the whole list into one row
ComponentStoreInitOneRow(components) ==
    IF Len(components) > 0 THEN <<ActionRow(components)>> ELSE <<>>

\* ComponentStore.__init__ for a flat list: the rows of the store
ComponentStoreInit(components) == Pack(components, 1, <<>>, <<>>)

\* Component.to_dict of a child, by class and identity
ChildDict(c) == [type |-> c.cls, id |-> c.id]

\* ActionRow.to_dict
RowDict(r) == [type |-> "action_row",
               components |-> [j \in DOMAIN r.components |-> ChildDict(r.components[j])]]

\* ComponentStore.to_dict: a list has no to_dict
to_dict(rows) ==
    IF \E i \in DOMAIN rows : rows[i].cls # "ActionRow"
    THEN [state |-> "AttributeError", value |-> <<>>]
    ELSE [state |-> "returned", value |-> [i \in DOMAIN rows |-> RowDict(rows[i])]]

\* ComponentStore(components)
Construct ==
    /\ ~store.built
    /\ store' = [built |-> TRUE, rows |-> ComponentStoreInit(given)]
    /\ UNCHANGED <<given, dicted>>
    /\ UNCHANGED notCompVars

\* store.to_dict()
StoreToDict ==
    /\ store.built
    /\ dicted.state = "none"
    /\ dicted' = to_dict(store.rows)
    /\ UNCHANGED <<given, store>>
    /\ UNCHANGED notCompVars

CompNext == Construct \/ StoreToDict

CompInit ==
    /\ SyncedOnce
    /\ RouteIdle
    /\ DispatchIdle
    /\ StoreIdle
    /\ LateIdle
    /\ PartIdle
    /\ RespIdle
    /\ given \in FlatLists
    /\ store = NoStore
    /\ dicted = NoDict

CompSpec == CompInit /\ [][CompNext]_vars

RECURSIVE Concat(_)
\* the components of the rows, in row order
Concat(rows) ==
    IF rows = <<>> THEN <<>> ELSE Head(rows).components \o Concat(Tail(rows))

\* the list handed over holds buttons and select menus only
ButtonsAndSelects == \A i \in DOMAIN given : given[i].cls # "ActionRow"

\* C18: for a flat list of buttons and select menus, every row of the store
\* that holds a SelectMenu holds that one component only, and the components
\* of the rows in row order are the list in its order
C18_SelectsAloneAndOrderKept ==
    (store.built /\ ButtonsAndSelects) =>
        /\ \A i \in DOMAIN store.rows :
             (\E j \in DOMAIN store.rows[i].components :
                  store.rows[i].components[j].cls = "SelectMenu")
                 => Len(store.rows[i].components) = 1
        /\ Concat(store.rows) = given

\* a store built from buttons, a select menu and buttons again
C18_Witness ==
    /\ store.built
    /\ ButtonsAndSelects
    /\ Len(given) >= 4
    /\ \E i \in 3..(Len(given) - 1) :
         /\ given[i].cls = "SelectMenu"
         /\ given[i - 1].cls = "Button"
         /\ given[i - 2].cls = "LinkButton"
         /\ given[i + 1].cls = "Button"
    /\ Len(store.rows) >= 3

\* C19: every ActionRow held by a store built from a flat list has at most
\* five children
C19_RowsHoldAtMostFive ==
    store.built =>
        \A i \in DOMAIN store.rows :
            store.rows[i].cls = "ActionRow" => Len(store.rows[i].components) <= 5

\* C20: when the flat list holds ActionRows, every element of the rows of the
\* store is an ActionRow, each ActionRow handed over is among them, and
\* to_dict() of the store succeeds
C20_GivenRowsAreKeptAsRows ==
    (store.built /\ ~ButtonsAndSelects) =>
        /\ \A i \in DOMAIN store.rows : store.rows[i].cls = "ActionRow"
        /\ \A i \in DOMAIN given :
             given[i].cls = "ActionRow" => \E j \in DOMAIN store.rows : store.rows[j] = given[i]
        /\ dicted.state # "AttributeError"

\* ------------------------------------------------- buttons, selects, options
\* None is "None", MISSING is "MISSING", the generated custom_id is "auto",
\* the default label "​" is "zwsp"; True and False are "True" and "False"
Truthy(x) == x \notin {"None", "", "False"}

\* int(style) and get_enum(ButtonStyle, value)
StyleValue(style) == CASE style = "blurple" -> 1 [] style = "gray" -> 2 [] OTHER -> 5

StyleOf(v) == CASE v = 1 -> "blurple" [] v = 2 -> "gray" [] OTHER -> "url"

\* data.get(key)
DictGet(dat, key) == IF key \in DOMAIN dat THEN dat[key] ELSE "None"

\* an exception leaves the call
Raised(e) == [cls |-> "raised", err |-> e]

\* BaseButton.__init__
BaseButton(cls, style, custom_id, url, disabled, label, emoji) ==
    [cls |-> cls, style |-> style,
     custom_id |-> IF url = "None"
                   THEN (IF custom_id = "MISSING" THEN "auto" ELSE custom_id)
                   ELSE "None",
     url |-> url,
     label |-> IF label = "MISSING" THEN "zwsp" ELSE label,
     disabled |-> disabled,
     emoji |-> emoji]

\* Button.__init__
Button(label, style, custom_id, emoji, disabled) ==
    BaseButton("Button", style, custom_id, "None", disabled, label, emoji)

\* LinkButton.__init__
LinkButton(url, label, emoji, disabled) ==
    BaseButton("LinkButton", "url", "MISSING", url, disabled, label, emoji)

\* Button.from_dict
ButtonFromDict(dat) ==
    Button(DictGet(dat, "label"), StyleOf(dat["style"]), DictGet(dat, "custom_id"),
           DictGet(dat, "emoji"), DictGet(dat, "disabled"))

\* LinkButton.from_dict: disabled is read under the key "disabledö"
LinkButtonFromDict(dat) ==
    LinkButton(DictGet(dat, "url"), DictGet(dat, "label"), DictGet(dat, "emoji"),
               DictGet(dat, "disabledö"))

\* a from_dict that parses every button as a Button
BaseButtonFromDictAsButton(dat) == ButtonFromDict(dat)

\* BaseButton.from_dict
BaseButtonFromDict(dat) ==
    IF "style" \notin DOMAIN dat THEN Raised("KeyError")
    ELSE IF dat["style"] = StyleValue("url") THEN LinkButtonFromDict(dat)
    ELSE ButtonFromDict(dat)

\* the keys of a mapping that are there only when their value is truthy
Optional(keys, obj) == [k \in {x \in keys : Truthy(obj[x])} |-> obj[k]]

\* BaseButton.to_dict
ButtonToDict(b) ==
    [type |-> 2, style |-> StyleValue(b.style), label |-> b.label, disabled |-> b.disabled]
        @@ Optional({"custom_id", "url", "emoji"}, b)

\* an option that keeps the value it is given, MISSING included
SelectOptionValueKept(label, value, description, emoji, default) ==
    [cls |-> "SelectOption", label |-> label, value |-> value,
     description |-> description, emoji |-> emoji, default |-> default]

\* SelectOption.__init__
SelectOption(label, value, description, emoji, default) ==
    [cls |-> "SelectOption", label |-> label,
     value |-> IF value = "MISSING" THEN label ELSE value,
     description |-> description, emoji |-> emoji, default |-> default]

\* SelectOption.from_dict
SelectOptionFromDict(dat) ==
    SelectOption(dat["label"], dat["value"], DictGet(dat, "description"),
                 DictGet(dat, "emoji"),
                 IF "default" \in DOMAIN dat THEN dat["default"] ELSE "False")

\* SelectOption.to_dict
SelectOptionToDict(o) ==
    [label |-> o.label, value |-> o.value, default |-> o.default]
        @@ Optional({"emoji", "description"}, o)

\* x or y for numbers, with None as 0
OrElse(x, y) == IF x = 0 THEN y ELSE x

\* SelectMenu.__init__
SelectMenu(options, custom_id, min_values, max_values, placeholder, disabled) ==
    [cls |-> "SelectMenu", type |-> 3,
     custom_id |-> IF custom_id = "MISSING" THEN "auto" ELSE custom_id,
     placeholder |-> placeholder,
     min_values |-> OrElse(min_values, 1),
     max_values |-> OrElse(max_values, OrElse(min_values, 1)),
     disabled |-> IF Truthy(disabled) THEN disabled ELSE "False",
     options |-> options]

\* SelectMenu.to_dict
SelectMenuToDict(m) ==
    [type |-> m.type, custom_id |-> m.custom_id, min_values |-> m.min_values,
     max_values |-> m.max_values,
     options |-> [i \in DOMAIN m.options |-> SelectOptionToDict(m.options[i])],
     disabled |-> m.disabled]
        @@ Optional({"placeholder"}, m)

\* SelectMenu.from_dict: the options are read under the key "optioins"
SelectMenuFromDict(dat) ==
    LET ops == IF "optioins" \in DOMAIN dat THEN dat["optioins"] ELSE <<>>
    IN SelectMenu([i \in DOMAIN ops |-> SelectOptionFromDict(ops[i])],
                  DictGet(dat, "custom_id"),
                  IF "min_values" \in DOMAIN dat THEN dat["min_values"] ELSE 1,
                  IF "max_values" \in DOMAIN dat THEN dat["max_values"] ELSE 1,
                  DictGet(dat, "placeholder"),
                  IF "disabled" \in DOMAIN dat THEN dat["disabled"] ELSE "False")

\* _component_factory, with ActionRow.from_dict for type 1
RECURSIVE component_factory(_)
component_factory(dat) ==
    CASE dat["type"] = 1 ->
           IF "components" \notin DOMAIN dat THEN Raised("KeyError")
           ELSE ActionRow([i \in DOMAIN dat["components"] |->
                              component_factory(dat["components"][i])])
      [] dat["type"] = 2 -> BaseButtonFromDict(dat)
      [] dat["type"] = 3 -> SelectMenuFromDict(dat)
      [] OTHER -> [cls |-> "Component", type |-> dat["type"]]

\* to_dict of the object held
PartToDict(obj) ==
    CASE obj.cls \in {"Button", "LinkButton"} -> ButtonToDict(obj)
      [] obj.cls = "SelectMenu" -> SelectMenuToDict(obj)
      [] obj.cls = "SelectOption" -> SelectOptionToDict(obj)
      [] obj.cls = "ActionRow" ->
           [type |-> 1,
            components |-> [i \in DOMAIN obj.components |-> ButtonToDict(obj.components[i])]]
      [] OTHER -> Raised("NotImplementedError")

\* ActionRow._get_index
get_index(row, key) ==
    LET r == {i \in DOMAIN row.components : row.components[i].custom_id = key}
    IN IF r # {} THEN [cls |-> "list", items |-> r] ELSE Raised("KeyError")

\* ActionRow.__getitem__ with a str key: self.components[<list of indices>]
RowGetItem(row, key) ==
    LET r == get_index(row, key)
    IN IF r.cls = "raised" THEN r ELSE Raised("TypeError")

CustomIds == {"MISSING", "None", "c1", "c2"}

Labels == {"MISSING", "l1"}

Tags == {"None", "e1"}

Flagged == {"True", "False"}

SomeOptions ==
    {SelectOption(l, v, d, "None", "False") :
        l \in {"l1"}, v \in {"MISSING", "v1"}, d \in {"None", "d1"}}

\* the button mappings the platform sends, and one without its style
ButtonPayloads ==
    { [type |-> 2, style |-> st, label |-> "l1", disabled |-> "False"] @@ ident
        : st \in {1, 2}, ident \in {[custom_id |-> "c1"]} }
    \cup { [type |-> 2, style |-> 5, label |-> "l1", disabled |-> dis, url |-> "u1"]
             : dis \in Flagged }

\* mappings of rows, select menus and of a type the library does not know
OtherPayloads ==
    { [type |-> 1, components |-> cs] : cs \in {<<>>} \cup {<<b>> : b \in ButtonPayloads} }
    \cup { [type |-> 3, custom_id |-> "c1", min_values |-> 1, max_values |-> mx,
            options |-> <<>>, disabled |-> "False"] : mx \in {1, 2} }
    \cup { [type |-> t] : t \in {4, 9} }

\* a call: what was called, and with which arguments
Call(how, args) == [cls |-> "call", how |-> how, args |-> args]

\* a constructor is called
Build ==
    /\ made.cls = "nothing"
    /\ \/ \E l \in Labels, st \in {"blurple", "gray"}, c \in CustomIds, e \in Tags, d \in Flagged :
            /\ asked' = Call("Button", [label |-> l, style |-> st, custom_id |-> c])
            /\ made' = Button(l, st, c, e, d)
       \/ \E u \in {"u1"}, l \in Labels, e \in Tags, d \in Flagged :
            /\ asked' = Call("LinkButton", [url |-> u, label |-> l])
            /\ made' = LinkButton(u, l, e, d)
       \/ \E l \in {"l1", "l2"}, v \in {"MISSING", "v1"}, d \in {"None", "d1"}, e \in Tags,
             df \in Flagged :
            /\ asked' = Call("SelectOption", [label |-> l, value |-> v])
            /\ made' = SelectOption(l, v, d, e, df)
       \/ \E ops \in {<<>>} \cup {<<o>> : o \in SomeOptions}
                        \cup {<<o, SelectOption("l2", "v2", "None", "e1", "True")>> : o \in SomeOptions},
             c \in CustomIds, mn \in {0, 1}, mx \in {0, 2}, ph \in {"None", "p1"}, d \in Flagged :
            /\ asked' = Call("SelectMenu", [custom_id |-> c, min_values |-> mn, max_values |-> mx])
            /\ made' = SelectMenu(ops, c, mn, mx, ph, d)
       \/ \E c1 \in {"c1", "c2"}, c2 \in {"c1", "c2"} :
            /\ asked' = Call("ActionRow", <<c1, c2>>)
            /\ made' = ActionRow(<<Button("l1", "gray", c1, "None", "False"),
                                   Button("l1", "gray", c2, "None", "False")>>)
    /\ UNCHANGED <<wired, got>>
    /\ UNCHANGED notPartVars

\* a mapping is parsed: Button.from_dict, or the factory
Parse ==
    /\ made.cls = "nothing"
    /\ \/ \E dat \in ButtonPayloads :
            /\ asked' = Call("Button.from_dict", dat)
            /\ made' = ButtonFromDict(dat)
       \/ \E dat \in ButtonPayloads \cup OtherPayloads :
            /\ asked' = Call("factory", dat)
            /\ made' = component_factory(dat)
    /\ UNCHANGED <<wired, got>>
    /\ UNCHANGED notPartVars

\* to_dict() of the object
Dump ==
    /\ made.cls \notin {"nothing", "raised", "Component"}
    /\ wired.cls = "nothing"
    /\ wired' = [cls |-> "dict", value |-> PartToDict(made)]
    /\ UNCHANGED <<asked, made, got>>
    /\ UNCHANGED notPartVars

\* the mapping is parsed again
Reparse ==
    /\ wired.cls # "nothing"
    /\ got.cls = "nothing"
    /\ made.cls # "SelectOption"
    /\ got' = component_factory(wired.value)
    /\ UNCHANGED <<asked, made, wired>>
    /\ UNCHANGED notPartVars

\* row[key] with a custom_id as key
Lookup ==
    \E key \in {"c1", "c2"} :
        /\ made.cls = "ActionRow"
        /\ wired.cls = "nothing"
        /\ got.cls = "nothing"
        /\ got' = [cls |-> "lookup", key |-> key, out |-> RowGetItem(made, key)]
        /\ UNCHANGED <<asked, made, wired>>
        /\ UNCHANGED notPartVars

PartNext == Build \/ Parse \/ Dump \/ Reparse \/ Lookup

PartInit ==
    /\ SyncedOnce
    /\ RouteIdle
    /\ DispatchIdle
    /\ StoreIdle
    /\ LateIdle
    /\ RespIdle
    /\ CompIdle
    /\ PartIdle

PartSpec == PartInit /\ [][PartNext]_vars

\* a button object is held
ButtonMade == made.cls \in {"Button", "LinkButton"}

\* C21: every button, built by Button(...), by LinkButton(...) or parsed by
\* from_dict, has exactly one of custom_id and url populated
C21_ExactlyOneOfCustomIdAndUrl ==
    ButtonMade => ((made.custom_id # "None") # (made.url # "None"))

\* a mapping was parsed again, and what it came from
Reparsed == got.cls \notin {"nothing", "lookup"}

\* C22: parsing the result of to_dict() gives a component equal to the
\* original in all its fields; stated for SelectMenu and its options
C22_RoundTripKeepsTheComponent ==
    (Reparsed /\ made.cls = "SelectMenu") => (got.cls = "SelectMenu" /\ got = made)

\* the children of the row held whose custom_id is the key looked up
Keyed == {i \in DOMAIN made.components : made.components[i].custom_id = got.key}

\* C23: row[custom_id] gives the child whose custom_id is the key when there
\* is one and raises KeyError when there is none
C23_LookupByCustomId ==
    got.cls = "lookup" =>
        IF Keyed = {}
        THEN got.out.cls = "raised" /\ got.out.err = "KeyError"
        ELSE got.out.cls = "Button" /\ got.out.custom_id = got.key

\* the factory was called with a mapping
FactoryCalled == asked.cls = "call" /\ asked.how = "factory"

C25_UnsetFieldsAreAbsent ==
    (wired.cls = "dict" /\ made.cls # "ActionRow") =>
        /\ made.cls # "SelectOption" => "type" \in DOMAIN wired.value
        /\ \A k \in {"custom_id", "url", "emoji", "placeholder", "description"} :
             k \in DOMAIN wired.value => wired.value[k] # "None"

\* SelectOption(...) was called
OptionBuilt == asked.cls = "call" /\ asked.how = "SelectOption"

\* C29: a SelectOption built without a value has its label as value; one
\* built with a value keeps it
C29_ValueDefaultsToLabel ==
    OptionBuilt =>
        made.value = IF asked.args.value = "MISSING" THEN asked.args.label ELSE asked.args.value

\* an option built without a value
C29_Witness ==
    /\ OptionBuilt
    /\ asked.args.value = "MISSING"
    /\ asked.args.label = "l2"
    /\ made.value = "l2"

\* ------------------------------------------- subcommands in the store, remove
\* the SlashCommand _add creates as base of a subcommand
NewBase(name) ==
    [type |-> "chat_input", name |-> name, description |-> "zwsp", options |-> <<>>,
     guild_ids |-> <<>>, id |-> 0, permissions |-> "p0", subs |-> <<>>]

\* a store: the command objects and the cache, with the exception raised
StoreOf(os, ch, e) == [objs |-> os, cache |-> ch, err |-> e]

\* the guild branch of CommandStore._add for a subcommand, guild by guild
RECURSIVE AddSubGuilds(_, _, _, _)
AddSubGuilds(st, command, gids, i) ==
    IF i > Len(gids) \/ st.err # "" THEN st
    ELSE LET g == gids[i]
             c1 == IF Has(st.cache, g) THEN st.cache ELSE Put(st.cache, g, <<>>)
             c2 == IF Has(Get(c1, g), "chat_input") THEN c1
                   ELSE Put(c1, g, Put(Get(c1, g), "chat_input", <<>>))
             names == Get(Get(c2, g), "chat_input")
             found == Has(names, command.base_name)
             ref == IF found THEN Get(names, command.base_name) ELSE Len(st.objs) + 1
             os == IF found THEN st.objs ELSE Append(st.objs, NewBase(command.base_name))
             added == add_subcommand(os[ref].subs, [obj |-> command.obj, name |-> command.name,
                                                        group_name |-> command.group_name])
             os2 == [os EXCEPT ![ref].subs = added.tree]
         IN IF added.err # ""
            THEN StoreOf(os2, c2, added.err)
            ELSE AddSubGuilds(StoreOf(os2, Put(c2, g, Put(Get(c2, g), "chat_input",
                                                         Put(names, command.base_name, ref))), ""),
                              command, gids, i + 1)

\* CommandStore._add for a subcommand: the global branch reads
\* command.base_names, which SubSlashCommand.__init__ never sets
AddSub(os, ch, command, gids) ==
    IF ~(Len(gids) > 0) THEN StoreOf(os, ch, "AttributeError")
    ELSE AddSubGuilds(StoreOf(os, ch, ""), [obj |-> command.obj, name |-> command.name,
                                            group_name |-> command.group_name,
                                            base_name |-> command.base_name], gids, 1)

\* del d[key]
Del(d, key) == SelectSeq(d, LAMBDA e : e.k # key)

\* CommandStore.remove: the new cache and the exception. A subcommand has no
\* base_names; the key for the globals is "global"; the loop returns after
\* its first key
Remove(ch, b, ref, isSub) ==
    IF isSub THEN [cache |-> ch, err |-> "AttributeError"]
    ELSE LET keys == IF is_global(b) THEN <<"global">> ELSE b.guild_ids
             k == keys[1]
         IN IF ~Has(ch, k) THEN [cache |-> ch, err |-> "KeyError"]
            ELSE IF ~Has(Get(ch, k), b.type) THEN [cache |-> ch, err |-> ""]
            ELSE IF ~Has(Get(Get(ch, k), b.type), b.name) THEN [cache |-> ch, err |-> ""]
            ELSE [cache |-> Put(ch, k, Put(Get(ch, k), b.type, Del(Get(Get(ch, k), b.type), b.name))),
                  err |-> ""]

\* the bases a subcommand of these guilds adds to the store
NewBases(ch, base, gids) ==
    Cardinality({i \in DOMAIN gids :
                    ~(Has(ch, gids[i]) /\ Has(Get(ch, gids[i]), "chat_input")
                      /\ Has(Get(Get(ch, gids[i]), "chat_input"), base))})

\* add_command(SubSlashCommand(None, base_names, name=..., guild_ids=...))
RegisterSub ==
    \E n \in SubNames, g \in {"", "g"}, gids \in GuildIdLists :
        /\ Idle
        /\ last.n < MaxStoreCalls
        /\ Len(subobjs) < MaxSubs
        /\ Len(objs) + NewBases(cache, "a", gids) <= MaxCmds
        /\ LET command == [obj |-> Len(subobjs) + 1, name |-> n, group_name |-> g,
                           base_name |-> "a", guild_ids |-> gids]
               st == AddSub(objs, cache, command, gids)
           IN /\ subobjs' = Append(subobjs, command)
              /\ objs' = st.objs
              /\ cache' = st.cache
              /\ last' = [op |-> "add", kind |-> "sub", ref |-> Len(subobjs) + 1, err |-> st.err,
                        n |-> last.n + 1]
        /\ pc' = "idle"
        /\ sy' = NoSync
        /\ UNCHANGED notStoreVars
        /\ UNCHANGED <<raw_cache, on_sync, stateGuilds, remote, nextId, err, log,
                       calls, notif, startRemote, startObjs, syncs, edits, fails>>

\* remove(c) for a command or a subcommand handed to add_command before
Unregister ==
    \E kind \in {"command", "sub"}, ref \in 1..(MaxCmds + MaxSubs) :
        /\ Idle
        /\ last.n < MaxStoreCalls
        /\ kind = "command" => ref \in DOMAIN objs
        /\ kind = "sub" => ref \in DOMAIN subobjs
        /\ LET b == IF kind = "command" THEN objs[ref]
                    ELSE [NewBase(subobjs[ref].name) EXCEPT !.guild_ids = subobjs[ref].guild_ids]
               r == Remove(cache, b, ref, kind = "sub")
           IN /\ cache' = r.cache
              /\ last' = [op |-> "remove", kind |-> kind, ref |-> ref, err |-> r.err, n |-> last.n + 1]
        /\ pc' = "idle"
        /\ sy' = NoSync
        /\ UNCHANGED subobjs
        /\ UNCHANGED notStoreVars
        /\ UNCHANGED <<objs, raw_cache, on_sync, stateGuilds, remote, nextId, err, log,
                       calls, notif, startRemote, startObjs, syncs, edits, fails>>

\* add_command of a command without options
RegisterPlain == \E t \in AddTypes, name \in AddNames, gids \in GuildIdLists : AddCommand(t, name, <<>>, gids)

\* one sync(), nothing deleted
SyncOnce == syncs < MaxStoreSyncs /\ SyncStart(FALSE)

StoreNext ==
    \/ RegisterPlain
    \/ RegisterSub
    \/ Unregister
    \/ SyncOnce
    \/ GlobalFetch
    \/ GlobalWrite
    \/ GuildFetch
    \/ GuildPermsFetch
    \/ GuildGlobalFetch
    \/ GuildWrite

StoreSpec == Init /\ [][StoreNext]_vars

\* the scopes of the cache that hold this command object
StoredIn(ch, ref) == {e.scope : e \in {x \in EntriesOf(ch) : x.ref = ref}}

\* remove(c) has just been called for a global command without subcommands
RemovedGlobal ==
    /\ last.op = "remove"
    /\ last.kind = "command"
    /\ is_global(objs[last.ref])
    /\ objs[last.ref].subs = <<>>

\* C26: remove undoes add_command: after add_command(c) and remove(c), here
\* for a global command c, remove has raised nothing and c is stored in no
\* scope of the cache.
C26_RemoveUndoesAddCommand ==
    RemovedGlobal => last.err = "" /\ StoredIn(cache, last.ref) = {}

\* the scopes add_command stores a command under
ScopesOf(b) == IF is_global(b) THEN {"globals"} ELSE {b.guild_ids[i] : i \in DOMAIN b.guild_ids}

\* the slots of the cache add_command writes for the command
SlotsOf(b) == {[scope |-> s, type |-> b.type, name |-> b.name] : s \in ScopesOf(b)}

SlotOf(e) == [scope |-> e.scope, type |-> e.type, name |-> e.name]

\* this step is add_command(c) for a command c that is no subcommand
AddedCommand == Len(objs') = Len(objs) + 1 /\ subobjs' = subobjs

InTree(tree, k) ==
    \E i \in DOMAIN tree :
        \/ tree[i].v.kind = "sub" /\ tree[i].v.cmd.obj = k
        \/ /\ tree[i].v.kind = "group"
           /\ \E j \in DOMAIN tree[i].v.subs : tree[i].v.subs[j].v.cmd.obj = k

\* the options of a payload name the subcommand: directly, or in the entry
\* of its group
Names(options, command) ==
    IF command.group_name = ""
    THEN \E i \in DOMAIN options :
            options[i].type = "subcommand" /\ options[i].name = command.name
    ELSE \E i \in DOMAIN options :
            /\ options[i].type = "subcommand_group"
            /\ options[i].name = command.group_name
            /\ \E j \in DOMAIN options[i].options :
                  /\ options[i].options[j].type = "subcommand"
                  /\ options[i].options[j].name = command.name

\* the bases with subcommands the cache holds for a guild
BasesOf(os, ch) == {e \in EntriesOf(ch) :
                       e.scope # "globals" /\ e.type = "chat_input" /\ os[e.ref].subs # <<>>}

GuildBases == BasesOf(objs, cache)

\* this step is add_command(c) for a subcommand c, and it raised nothing
AddedSubcommand == Len(subobjs') = Len(subobjs) + 1 /\ last'.err = ""

\* C28: a guild-scoped subcommand registered with base name B, name N and
\* guild_ids G is put under a base named B in every guild of G, and a sync()
\* that returned has sent, for each guild, one guild command payload named B
\* whose options name every subcommand of that base: a bare one by an entry
\* of type subcommand, a grouped one inside the subcommand_group entry named
\* after its group.
C28_GuildSubcommandsAreSent ==
    /\ [][AddedSubcommand =>
            LET k == Len(subobjs')
            IN \A i \in DOMAIN subobjs'[k].guild_ids :
                  \E e \in BasesOf(objs', cache') :
                      /\ e.scope = subobjs'[k].guild_ids[i]
                      /\ e.name = subobjs'[k].base_name
                      /\ InTree(objs'[e.ref].subs, k)]_vars
    /\ [](pc = "done" =>
          \A e \in GuildBases :
              /\ CallsFor("create", e) + CallsFor("edit", e) = 1
              /\ \E c \in DOMAIN remote[e.scope] :
                    /\ remote[e.scope][c].name = e.name
                    /\ remote[e.scope][c].type = 1
                    /\ \A k \in DOMAIN subobjs :
                          InTree(objs[e.ref].subs, k) =>
                              Names(remote[e.scope][c].options, subobjs[k]))

\* sync() returned with a bare and a grouped subcommand under one base in
\* two guilds
C28_Witness ==
    /\ pc = "done"
    /\ \E e1 \in GuildBases, e2 \in GuildBases :
          /\ e1.scope = "g1"
          /\ e2.scope = "g2"
          /\ \E k1 \in DOMAIN subobjs, k2 \in DOMAIN subobjs :
                /\ subobjs[k1].group_name = ""
                /\ subobjs[k2].group_name # ""
                /\ InTree(objs[e1.ref].subs, k1) /\ InTree(objs[e1.ref].subs, k2)
                /\ InTree(objs[e2.ref].subs, k1) /\ InTree(objs[e2.ref].subs, k2)

\* --------------------------------------------- add_command during a sync()
ConcNames == {"a", "b"}

\* sync() is inside its loops over the cache
InLoops == pc \in {"g_fetch", "g_write", "gg_fetch", "gg_perms", "gg_global", "gg_write"}

\* the names dict the sync() iterates gets a new key by _add of b
NamesGrow(b) ==
    /\ InLoops
    /\ sy.s \in ScopesOf(b)
    /\ Get(cache, sy.s)[sy.c].k = b.type
    /\ ~Has(Get(cache, sy.s)[sy.c].v, b.name)

\* the type dict of the scope the sync() iterates gets a new key by _add of b
TypesGrow(b) ==
    /\ InLoops
    /\ sy.s \in ScopesOf(b)
    /\ ~Has(Get(cache, sy.s), b.type)

\* another task calls add_command while sync() is suspended in a request:
\* _add takes no lock and does not look at the sync()
AddDuringSync ==
    \E t \in AddTypes, name \in ConcNames, gids \in GuildIdLists :
        /\ ~Idle
        /\ Len(objs) < MaxCmds
        /\ LET b == [type |-> t, name |-> name, description |-> "d1", options |-> <<>>,
                     guild_ids |-> gids, id |-> 0, permissions |-> "p0", subs |-> <<>>]
           IN /\ objs' = Append(objs, b)
              /\ cache' = CacheAdd(cache, b, Len(objs) + 1)
              /\ sy' = [sy EXCEPT !.namesGrew = @ \/ NamesGrow(b),
                                  !.typesGrew = @ \/ TypesGrow(b)]
        /\ UNCHANGED otherVars
        /\ UNCHANGED <<raw_cache, on_sync, stateGuilds, remote, nextId, pc, err, log,
                       calls, notif, startRemote, startObjs, syncs, edits, fails>>

\* add_command of a command without options, while no sync() runs
RegisterIdle == \E t \in AddTypes, name \in ConcNames, gids \in GuildIdLists : AddCommand(t, name, <<>>, gids)

ConcNext ==
    \/ RegisterIdle
    \/ AddDuringSync
    \/ Sync
    \/ GlobalFetch
    \/ GlobalWrite
    \/ GuildFetch
    \/ GuildPermsFetch
    \/ GuildGlobalFetch
    \/ GuildWrite
    \/ DeleteGlobalFetch
    \/ DeleteGlobal
    \/ DeleteGuildFetch
    \/ DeleteGuild

ConcSpec == Init /\ [][ConcNext]_vars

\* the commands added since the sync() started
AddedSince == {ref \in DOMAIN objs : ref > Len(startObjs)}

\* C30: add_command is not guarded against a sync() in flight: at every
\* suspension point of sync() it can be called, and it takes effect at once,
\* the command being in the cache while the sync() goes on from where it
\* was; a sync() returns successfully only if no dict it was iterating got
\* a new key.
C30_AddCommandDuringSync ==
    /\ []((~Idle /\ Len(objs) < MaxCmds) => ENABLED AddDuringSync)
    /\ [][(~Idle /\ Len(objs') = Len(objs) + 1) =>
            /\ StoredIn(cache', Len(objs')) = ScopesOf(objs'[Len(objs')])
            /\ pc' = pc
            /\ raw_cache' = raw_cache]_vars
    /\ [](pc = "done" => ~sy.namesGrew /\ ~sy.typesGrew)

\* sync() has returned successfully and a command added during it is in the
\* cache without id and without _raw_cache entry
C30_Witness ==
    /\ pc = "done"
    /\ \E ref \in AddedSince :
          /\ StoredIn(cache, ref) # {}
          /\ objs[ref].id = 0
          /\ \A e \in raw_cache : e.ref # ref

\* ------------------------------------------- the Interaction class, again
\* the call made last, or in flight, is a call of Interaction that began
\* after an initial response of the interaction had succeeded
LaterInteractionCall ==
    call.obj = "interaction" /\ (call.before.iresponded \/ call.before.deferred)

\* C31: in every sequence of defer(), respond() and send() calls on one
\* Interaction the initial-response request (http.respond_to) succeeds at
\* most once, and a call that begins after it succeeded goes through the
\* edit-original or the follow-up route and never to respond_to.
C31_OneInitialResponseOfInteraction ==
    /\ sent.respond_to <= 1
    /\ LaterInteractionCall => call.pc \notin {"defer", "ninja", "initial"}

\* ------------------------------------------- Interaction.original_message
MaxOrigCalls == 4

\* the variables original_message leaves alone
notOrigVars == <<syncVars, routeVars, dispatchVars, respVars, compVars, partVars, storeVars, nukeVars, overVars, uiVars>>

\* an original_message that never looks at the stored message
OriginalEntryNoCache(stored, channel) ==
    IF ~channel THEN [pc |-> "raised", err |-> "ClientException", ret |-> 0]
    ELSE [pc |-> "fetch", err |-> "", ret |-> 0]

\* original_message up to its request: the stored message is returned at
\* once; without a channel the call raises; else it awaits the fetch
OriginalEntry(stored, channel) ==
    IF stored # 0 THEN [pc |-> "returned", err |-> "", ret |-> stored]
    ELSE IF ~channel THEN [pc |-> "raised", err |-> "ClientException", ret |-> 0]
    ELSE [pc |-> "fetch", err |-> "", ret |-> 0]

\* the InteractionMessage objects constructed so far
Messages == {ocalls[i].made : i \in DOMAIN ocalls} \ {0}

\* a task calls interaction.original_message(); self.channel is resolved or None
OriginalMessageCall ==
    \E channel \in BOOLEAN :
        /\ Len(ocalls) < MaxOrigCalls
        /\ LET e == OriginalEntry(original_message, channel)
           IN ocalls' = Append(ocalls, [pc |-> e.pc, err |-> e.err, ret |-> e.ret, made |-> 0,
                                        requests |-> 0, stored |-> original_message])
        /\ overlapped' = (overlapped \/ \E i \in DOMAIN ocalls : ocalls[i].pc = "fetch")
        /\ UNCHANGED original_message
        /\ UNCHANGED notOrigVars

\* adapter.get_original_interaction_response returns or raises; on return
\* the message is constructed, stored and returned
OriginalMessageFetch ==
    \E i \in DOMAIN ocalls, ok \in BOOLEAN :
        /\ ocalls[i].pc = "fetch"
        /\ LET message == Cardinality(Messages) + 1
           IN IF ok
              THEN /\ original_message' = message
                   /\ ocalls' = [ocalls EXCEPT ![i] = [@ EXCEPT !.pc = "returned", !.ret = message,
                                                                !.made = message, !.requests = 1]]
              ELSE /\ original_message' = original_message
                   /\ ocalls' = [ocalls EXCEPT ![i] = [@ EXCEPT !.pc = "raised", !.err = "HTTPException",
                                                                !.requests = 1]]
        /\ UNCHANGED overlapped
        /\ UNCHANGED notOrigVars

OrigNext == OriginalMessageCall \/ OriginalMessageFetch

OrigInit == SyncedOnce /\ OthersIdle

OrigSpec == OrigInit /\ [][OrigNext]_vars

\* C32: original_message caches its result: a call made after a call has
\* completed successfully returns the stored message and issues no fetch
\* request, calls made one after the other all return the message of the
\* first success, and a call that fails stores nothing.
C32_OriginalMessageIsCached ==
    /\ [](\A i \in DOMAIN ocalls :
            ocalls[i].stored # 0 =>
                /\ ocalls[i].pc = "returned"
                /\ ocalls[i].ret = ocalls[i].stored
                /\ ocalls[i].requests = 0)
    /\ [](~overlapped =>
            /\ Cardinality(Messages) <= 1
            /\ \A i \in DOMAIN ocalls : ocalls[i].pc = "returned" => ocalls[i].ret = 1)
    /\ [][\A i \in DOMAIN ocalls :
            (ocalls[i].pc # "raised" /\ ocalls'[i].pc = "raised") =>
                original_message' = original_message]_vars

\* after a call that failed and one that fetched the message, a later call
\* has returned the stored message
C32_Witness ==
    /\ ~overlapped
    /\ \E i \in DOMAIN ocalls, j \in DOMAIN ocalls, k \in DOMAIN ocalls :
          /\ i < j /\ j < k
          /\ ocalls[i].pc = "raised" /\ ocalls[i].err = "HTTPException"
          /\ ocalls[j].pc = "returned" /\ ocalls[j].requests = 1
          /\ ocalls[k].pc = "returned" /\ ocalls[k].requests = 0 /\ ocalls[k].ret = ocalls[j].ret

\* ------------------------------------------------------ CommandStore.nuke
\* the variables nuke leaves alone
notNukeVars == <<routeVars, dispatchVars, respVars, compVars, partVars, storeVars, origVars, overVars, uiVars>>

\* the guilds argument of nuke: the default All, None, or a list of ids
GuildArgs == {[kind |-> "All", ids |-> <<>>], [kind |-> "None", ids |-> <<>>],
              [kind |-> "list", ids |-> <<"g1">>], [kind |-> "list", ids |-> <<"g1", "g2">>]}

\* nuke up to its first await: the default reads self._cache["!globals"],
\* a key the dict of the cache does not have; the guild deletions are
\* called without await, so the coroutines are created and never run
NukeEntry(globals, guilds) ==
    IF guilds.kind = "All" THEN [pc |-> "raised", err |-> "KeyError", unawaited |-> {}]
    ELSE IF globals THEN [pc |-> "delete_globals", err |-> "", unawaited |-> {}]
    ELSE [pc |-> "returned", err |-> "", unawaited |-> {guilds.ids[i] : i \in DOMAIN guilds.ids}]

\* await commands.nuke(globals, guilds) begins
NukeCall ==
    \E globals \in BOOLEAN, guilds \in GuildArgs :
        /\ Idle
        /\ nk.pc = ""
        /\ LET e == NukeEntry(globals, guilds)
           IN nk' = [pc |-> e.pc, err |-> e.err, globals |-> globals, guilds |-> guilds.kind,
                     ids |-> guilds.ids, deleted |-> {}, unawaited |-> e.unawaited]
        /\ UNCHANGED syncVars
        /\ UNCHANGED notNukeVars

\* slash_http.delete_global_commands returns or raises; then the loop over
\* the guilds
NukeDeleteGlobals ==
    \E ok \in BOOLEAN :
        /\ nk.pc = "delete_globals"
        /\ IF ok
           THEN /\ remote' = [remote EXCEPT !["globals"] = <<>>]
                /\ nk' = [nk EXCEPT !.pc = "returned", !.deleted = {"globals"},
                                    !.unawaited = {nk.ids[i] : i \in DOMAIN nk.ids}]
           ELSE /\ remote' = remote
                /\ nk' = [nk EXCEPT !.pc = "raised", !.err = "HTTPException"]
        /\ UNCHANGED <<objs, cache, raw_cache, on_sync, stateGuilds, nextId, pc, sy, err,
                       log, calls, notif, startRemote, startObjs, syncs, edits, fails>>
        /\ UNCHANGED notNukeVars

NukeNext == RegisterPlain \/ NukeCall \/ NukeDeleteGlobals

NukeSpec == Init /\ [][NukeNext]_vars

\* the scopes the documentation of nuke says are deleted
NukeDocumented ==
    (IF nk.globals THEN {"globals"} ELSE {})
        \cup (CASE nk.guilds = "All" -> {k \in Scopes : Has(cache, k) /\ k # "globals"}
                [] nk.guilds = "list" -> {nk.ids[i] : i \in DOMAIN nk.ids}
                [] OTHER -> {})

\* C33: nuke deletes what its documentation says and returns only after
\* every requested deletion has completed; stated for the calls that leave
\* guilds at its default and for which no request failed: the call returns
\* and the global commands (if asked for) and the commands of every guild of
\* the cache have been deleted.
C33_NukeDeletesTheDocumented ==
    (nk.guilds = "All" /\ nk.pc \in {"returned", "raised"} /\ nk.err # "HTTPException") =>
        /\ nk.pc = "returned"
        /\ nk.deleted = NukeDocumented

\* -------------------------------------------- _raw_cache and later syncs
\* C34: after every sync() that returned, each entry of _raw_cache is keyed
\* by the id of the command it holds, also for a command registered in
\* several guilds, whose one object is stored under each of its guilds.
C34_RawCacheKeyIsTheCommandsId ==
    pc = "done" => \A x \in raw_cache : objs[x.ref].id = x.id

\* a sync() begins after a sync() that returned, and is at its first await
LaterSyncBegins == pc = "done" /\ ~Idle'

\* C35: a command registered by an earlier sync() that returned stays
\* resolvable through get_interaction_command while a later sync() is in
\* flight; here at the first await of the later sync(): an interaction that
\* carries an id _raw_cache held is not answered with None.
C35_ResolvableDuringLaterSync ==
    [][LaterSyncBegins =>
         \A x \in raw_cache : get_interaction_command(raw_cache', x.id) # 0]_vars

\* ------------------------------ response operations in flight together
\* the variables the tasks that respond leave alone
notOverVars == <<syncVars, routeVars, dispatchVars, compVars, partVars, storeVars, origVars, nukeVars, uiVars>>

\* a task begins defer, pong, send_message or edit_message on the
\* InteractionResponse, whatever the other tasks are awaiting
TaskCall ==
    \E op \in {"defer", "pong", "send_message", "edit_message"} : \E a \in ArgsOf(op) :
        /\ Len(flights) < MaxCalls
        /\ LET e == ResponseEntry(op, a, responded, itype)
           IN flights' = Append(flights, [op |-> op, pc |-> e.pc, err |-> e.err])
        /\ UNCHANGED respVars
        /\ UNCHANGED notOverVars

\* adapter.create_interaction_response of one of the tasks returns or
\* raises; after the return the task sets _responded
TaskRequest ==
    \E i \in DOMAIN flights, ok \in BOOLEAN :
        /\ flights[i].pc = "initial"
        /\ responded' = AfterResponse(ok, responded)
        /\ sent' = IF ok THEN [sent EXCEPT !.initial = @ + 1]
                   ELSE [sent EXCEPT !.failed = @ + 1]
        /\ flights' = [flights EXCEPT ![i] = [@ EXCEPT !.pc = IF ok THEN "returned" ELSE "raised",
                                                       !.err = IF ok THEN "" ELSE "HTTPException"]]
        /\ UNCHANGED <<itype, inter, call>>
        /\ UNCHANGED notOverVars

OverNext == TaskCall \/ TaskRequest

OverSpec == RespInit /\ [][OverNext]_vars

\* the tasks that await the initial-response request they issued
Awaiting == {i \in DOMAIN flights : flights[i].pc = "initial"}

\* C36: when two response operations of one InteractionResponse are in
\* flight at the same time, at most one initial-response request is issued:
\* no two tasks await such a request together, and at most one succeeds.
C36_OneRequestAmongOverlappingCalls ==
    /\ Cardinality(Awaiting) <= 1
    /\ sent.initial <= 1

\* ------------------------------ is_done
\* a call of InteractionResponse ends without a successful request: the
\* request raised, or the operation sent nothing for this interaction type
EndsUnsent ==
    /\ call'.obj = "response"
    /\ call' # call
    /\ \/ call'.pc = "raised" /\ call'.err = "HTTPException"
       \/ call'.pc = "returned" /\ call'.requests = 0

\* C37: is_done() is True exactly when an initial-response request of the
\* InteractionResponse has completed successfully; a request that fails and a
\* call that sends nothing leave it as it was, and while it is False the next
\* operation is not refused with InteractionResponded.
C37_IsDoneIffResponseSent ==
    /\ [](is_done <=> sent.initial >= 1)
    /\ [][EndsUnsent => is_done' = is_done]_vars
    /\ [](~is_done => \A op \in {"defer", "pong", "send_message", "edit_message"} :
                         \A a \in ArgsOf(op) :
                            ResponseEntry(op, a, responded, itype).err # "InteractionResponded")

\* a request has failed, a call has sent nothing, and is_done() is still False
C37_Witness ==
    /\ ~is_done
    /\ sent.failed >= 1
    /\ call.obj = "response"
    /\ call.pc = "returned"
    /\ call.requests = 0

\* ------------------------------ membership
\* CommandStore.__contains__: "True", "False", or the exception raised. A
\* subcommand has no base_names, which both branches read once the scope,
\* the type and (for a global) the base are found
Contains(ch, command, isSub) ==
    LET type_key == command.type
    IN IF is_global(command)
       THEN IF isSub
            THEN IF ~Has(Get(ch, "globals"), type_key) THEN "False"
                 ELSE IF ~Has(Get(Get(ch, "globals"), type_key), command.base_name) THEN "False"
                 ELSE "AttributeError"
            ELSE IF ~Has(Get(ch, "globals"), type_key) THEN "False"
                 ELSE IF Has(Get(Get(ch, "globals"), type_key), command.name) THEN "True" ELSE "False"
       ELSE LET g == command.guild_ids[1]
            IN IF isSub
               THEN IF ~Has(ch, g) THEN "False"
                    ELSE IF ~Has(Get(ch, g), type_key) THEN "False"
                    ELSE "AttributeError"
               ELSE IF \A i \in DOMAIN command.guild_ids :
                          /\ Has(ch, command.guild_ids[i])
                          /\ Has(Get(ch, command.guild_ids[i]), type_key)
                          /\ Has(Get(Get(ch, command.guild_ids[i]), type_key), command.name)
                    THEN "True" ELSE "False"

\* the subcommand as __contains__ reads it
AsCommand(sub) ==
    [type |-> "chat_input", name |-> sub.name, guild_ids |-> sub.guild_ids,
     base_name |-> sub.base_name, group_name |-> sub.group_name]

\* add_command of a subcommand has returned
AddedSub == Len(subobjs') = Len(subobjs) + 1 /\ last'.err = ""

\* the commands without options that add_command was never given for any of
\* their scopes
NeverAdded ==
    {c \in [type : AddTypes, name : AddNames, guild_ids : GuildIdLists] :
        \A e \in EntriesOf(cache) : SlotOf(e) \notin SlotsOf(c)}

\* C38: membership agrees with insertion: c in store is True after
\* add_command(c) for a command and for a bare or grouped subcommand, global
\* or of guilds, and False for a command whose name was never added to its
\* scope and type.
C38_MembershipAgreesWithInsertion ==
    /\ [][AddedCommand => Contains(cache', objs'[Len(objs')], FALSE) = "True"]_vars
    /\ [][AddedSub => Contains(cache', AsCommand(subobjs'[Len(subobjs')]), TRUE) = "True"]_vars
    /\ [](\A c \in NeverAdded : Contains(cache, c, FALSE) = "False")

\* ------------------------------ the ready transition of the UI extension
MaxUICmds == 3

\* the commands handed to add_command
UICmds == 1..MaxUICmds

notUIVars == <<syncVars, routeVars, dispatchVars, respVars, compVars, partVars, storeVars,
               origVars, nukeVars, overVars>>

\* the commands the connection's store holds: those of the object its _cache
\* refers to
Held == stores[connCache]

\* UI.add_command: into _temp_commands until the client is ready, into the
\* connection's store afterwards
UIAddCommand ==
    \E c \in UICmds :
        /\ stores' = IF ~ui.ready THEN [stores EXCEPT !.temp = @ \cup {c}]
                     ELSE [stores EXCEPT ![connCache] = @ \cup {c}]
        /\ UNCHANGED <<ui, connCache>>
        /\ UNCHANGED syncVars
        /\ UNCHANGED notUIVars

\* UI.commands.add_command: the connection's store is handed a command
CommandsAddCommand ==
    \E c \in UICmds :
        /\ stores' = [stores EXCEPT ![connCache] = @ \cup {c}]
        /\ UNCHANGED <<ui, connCache>>
        /\ UNCHANGED syncVars
        /\ UNCHANGED notUIVars

\* the client becomes ready and the on_ready listener of the UI runs: it
\* loads _temp_commands into the connection's store and deletes the
\* attribute; a later ready event finds no _temp_commands. CommandStore.load
\* of an argument that is not a list makes the argument the _cache
OnReady ==
    /\ IF ui.temp
       THEN /\ connCache' = "temp"
            /\ ui' = [ready |-> TRUE, temp |-> FALSE, err |-> ""]
       ELSE /\ connCache' = connCache
            /\ ui' = [ui EXCEPT !.err = "AttributeError"]
    /\ UNCHANGED stores
    /\ UNCHANGED syncVars
    /\ UNCHANGED notUIVars

UINext == UIAddCommand \/ CommandsAddCommand \/ OnReady

UIInit == SyncedOnce /\ OthersIdle /\ UIIdle

UISpec == UIInit /\ [][UINext]_vars

\* the on_ready listener runs for the first time
ReadyTransition == ~ui.ready /\ ui'.ready

\* C39: no command is lost at the ready transition: the commands added
\* through UI.add_command before ready are in the connection's store after
\* on_ready, the commands that store held before on_ready are still in it,
\* and after ready a command added goes into the connection's store.
C39_NoCommandLostAtReady ==
    /\ [][ReadyTransition => stores.temp \subseteq Held' /\ Held \subseteq Held']_vars
    /\ [][(ui.ready /\ stores' # stores) => \E c \in UICmds : Held' = Held \cup {c}]_vars
====
